---- MODULE Spec2Model ----
(***************************************************************************)
(* A model of @elite174/api-maker: the APIMaker controller (lib.ts, kept   *)
(* in src/src/lib/lib.test.ts lines 346-564) and deepMerge (utils.ts).     *)
(*                                                                         *)
(* JavaScript values are tagged records [kind, val]; a plain object is a   *)
(* function from its own enumerable keys to values, an array a sequence,   *)
(* a string a TLA+ string.  Functions (handlers) are named by strings.     *)
(***************************************************************************)
EXTENDS Integers, Sequences, FiniteSets, TLC

VARIABLES
    base,                   \* config.base
    sharedRequestOptions,   \* config.sharedRequestOptions
    defaultResponseHandler, \* config.defaultResponseHandler
    MOCK_MODE_ENABLED,      \* the public mock-mode flag
    statusHandlers,         \* Record<number, Set<StatusEventHandler>>
    token,                  \* external state read by a lazy sharedRequestOptions
    onCalls,                \* how often on(status, handler) was called since the
                            \* handler was last removed
    setCall,                \* the last call of setSharedRequestOptions
    calls,                  \* the route calls in progress, by slot
    heap,                   \* deepMerge over object references: the objects by address
    objects,                \* deepMerge applied on its own: the arguments
    out                     \* deepMerge applied on its own: the result

vars == <<base, sharedRequestOptions, defaultResponseHandler, MOCK_MODE_ENABLED,
          statusHandlers, token, onCalls, setCall, calls, heap, objects, out>>

(***************************************************************************)
(* JavaScript values                                                       *)
(***************************************************************************)
Undefined == [kind |-> "undefined"]

Null == [kind |-> "null"]

Str(s) == [kind |-> "string", val |-> s]

Num(n) == [kind |-> "number", val |-> n]

Arr(s) == [kind |-> "array", val |-> s]

Obj(f) == [kind |-> "object", val |-> f]

Fn(name) == [kind |-> "function", val |-> name]

Bool(b) == [kind |-> "boolean", val |-> b]

\* a ReadableStream: an object without own enumerable keys
Stream == [kind |-> "stream"]

\* a ?? b
Coalesce(a, b) == IF a.kind \in {"undefined", "null"} THEN b ELSE a

\* {}: the object without keys
EmptyRecord == [key \in {} |-> Undefined]

\* !v is false
Truthy(v) ==
    CASE v.kind = "undefined" -> FALSE
      [] v.kind = "null" -> FALSE
      [] v.kind = "string" -> v.val # ""
      [] v.kind = "number" -> v.val # 0
      [] v.kind = "boolean" -> v.val
      [] OTHER -> TRUE

\* typeof v == "object" (true of null and of arrays too)
TypeofObject(v) == v.kind \in {"object", "array", "null", "stream"}

\* a non-null plain record: neither an array nor a primitive
IsRecord(v) == v.kind = "object"

IndexKeys(n) == {ToString(i) : i \in 0..(n - 1)}

IndexOf(key, n) == CHOOSE i \in 0..(n - 1) : ToString(i) = key

\* the keys `for (let key in v)` visits
EnumKeys(v) ==
    CASE v.kind = "object" -> DOMAIN v.val
      [] v.kind = "array" -> IndexKeys(Len(v.val))
      [] v.kind = "string" -> IndexKeys(Len(v.val))
      [] OTHER -> {}

\* v[key], for a key of EnumKeys(v)
Get(v, key) ==
    CASE v.kind = "object" -> v.val[key]
      [] v.kind = "array" -> v.val[IndexOf(key, Len(v.val)) + 1]
      [] v.kind = "string" ->
            Str(SubSeq(v.val, IndexOf(key, Len(v.val)) + 1, IndexOf(key, Len(v.val)) + 1))
      [] OTHER -> Undefined

(***************************************************************************)
(* deepMerge (utils.ts)                                                    *)
(***************************************************************************)
RECURSIVE deepMerge(_)

\* the older deepMerge: no `value &&` guard, so an incoming null is merged
MergeKeyOld(merged, object, key) ==
    LET value == Get(object, key)
    IN  IF key \in DOMAIN merged /\ TypeofObject(value)
        THEN deepMerge(<<merged[key], value>>)
        ELSE value

\* out[key] = key in out && value && typeof value == "object" ? deepMerge(out[key], value) : value
MergeKey(merged, object, key) ==
    LET value == Get(object, key)
    IN  IF key \in DOMAIN merged /\ Truthy(value) /\ TypeofObject(value)
        THEN deepMerge(<<merged[key], value>>)
        ELSE value

\* one round of the outer loop: `if (!object) continue; for (let key in object) ...`
MergeObject(merged, object) ==
    IF ~Truthy(object)
    THEN merged
    ELSE [key \in DOMAIN merged \cup EnumKeys(object) |->
            IF key \in EnumKeys(object) THEN MergeKey(merged, object, key) ELSE merged[key]]

RECURSIVE MergeFrom(_, _, _)
\* the outer loop over the arguments, from the i-th on
MergeFrom(merged, args, i) ==
    IF i > Len(args)
    THEN merged
    ELSE MergeFrom(MergeObject(merged, args[i]), args, i + 1)

deepMerge(args) == Obj(MergeFrom(EmptyRecord, args, 1))

(***************************************************************************)
(* APIMaker (lib.ts)                                                       *)
(***************************************************************************)
\* APIMaker.DEFAULTS.requestInit
DefaultRequestInit == Obj([method |-> Str("GET")])

\* APIMaker.DEFAULTS.responseHandler: response => response.json()
DefaultResponseHandler == Fn("json")

\* a lazy sharedRequestOptions whose first result is kept: the token of construction
LazyOptionsCached(name) == Obj([headers |-> Obj([Authorization |-> Str("t1")])])

\* the lazy sharedRequestOptions of the model: () => ({headers: {Authorization: token}})
LazyOptions(name) == Obj([headers |-> Obj([Authorization |-> Str(token)])])

\* getSharedRequestOptions: a function is called, a record is returned as it is
getSharedRequestOptions(options) ==
    IF options.kind = "function" THEN LazyOptions(options.val) ELSE options

\* new URL(path, base).toString(), for a base that is an origin and an absolute path
getFullPath(path) == base \o path

\* mock?.enabled is truthy
MockEnabled(mock) == mock # Undefined /\ Truthy(mock.enabled)

\* mock?.handler
MockHandlerOf(mock) == IF mock = Undefined THEN Undefined ELSE mock.handler

\* getMockHandler without the first return: a missing handler always throws
getMockHandlerStrict(requestMock, requestCreatorMock) ==
    IF MOCK_MODE_ENABLED \/ MockEnabled(requestMock) \/ MockEnabled(requestCreatorMock)
    THEN LET mockHandler ==
                 Coalesce(MockHandlerOf(requestMock), MockHandlerOf(requestCreatorMock))
         IN  IF ~Truthy(mockHandler)
             THEN [threw |-> TRUE, handler |-> Undefined]
             ELSE [threw |-> FALSE, handler |-> mockHandler]
    ELSE [threw |-> FALSE, handler |-> Undefined]

\* getMockHandler with the handlers swapped: the route-level handler comes first
getMockHandlerRouteFirst(requestMock, requestCreatorMock) ==
    IF MOCK_MODE_ENABLED \/ MockEnabled(requestMock) \/ MockEnabled(requestCreatorMock)
    THEN LET mockHandler ==
                 Coalesce(MockHandlerOf(requestCreatorMock), MockHandlerOf(requestMock))
         IN  IF MOCK_MODE_ENABLED
             THEN [threw |-> FALSE, handler |-> mockHandler]
             ELSE IF ~Truthy(mockHandler)
                  THEN [threw |-> TRUE, handler |-> Undefined]
                  ELSE [threw |-> FALSE, handler |-> mockHandler]
    ELSE [threw |-> FALSE, handler |-> Undefined]

\* getMockHandler without the activation test: a handler is used whenever there is one
getMockHandlerAlways(requestMock, requestCreatorMock) ==
    [threw |-> FALSE,
     handler |-> Coalesce(MockHandlerOf(requestMock), MockHandlerOf(requestCreatorMock))]

\* getMockHandler that never finds a handler under the global flag
getMockHandlerNoGlobal(requestMock, requestCreatorMock) ==
    IF MOCK_MODE_ENABLED
    THEN [threw |-> FALSE, handler |-> Undefined]
    ELSE getMockHandlerStrict(requestMock, requestCreatorMock)

\* getMockHandler: the handler to use, or undefined, or the thrown error
getMockHandler(requestMock, requestCreatorMock) ==
    IF MOCK_MODE_ENABLED \/ MockEnabled(requestMock) \/ MockEnabled(requestCreatorMock)
    THEN LET mockHandler ==
                 Coalesce(MockHandlerOf(requestMock), MockHandlerOf(requestCreatorMock))
         IN  IF MOCK_MODE_ENABLED
             THEN [threw |-> FALSE, handler |-> mockHandler]
             ELSE IF ~Truthy(mockHandler)
                  THEN [threw |-> TRUE, handler |-> Undefined]
                  ELSE [threw |-> FALSE, handler |-> mockHandler]
    ELSE [threw |-> FALSE, handler |-> Undefined]

\* the error getMockHandler throws
MockHandlerNotProvided == "[api-maker]: Mock handler is not provided"

\* the rejection of sendRequest for a ReadableStream body
CannotSendStream == "[api-maker]: Cannot send readable stream via XMLHTTPRequest"

\* options?.field
Opt(options, field) == IF options = Undefined THEN Undefined ELSE options[field]

\* a route definition computed once, for the params of the first call, and reused
RouteDefinitionCached(route, params) ==
    [path |-> route.prefix \o "1",
     requestInit |-> route.requestInit,
     mock |-> route.mock,
     responseHandler |-> route.responseHandler]

\* requestCreator(params): the route definition of one call
RouteDefinition(route, params) ==
    [path |-> route.prefix \o params,
     requestInit |-> route.requestInit,
     mock |-> route.mock,
     responseHandler |-> route.responseHandler]

\* the resolution with the built-in default as a layer below the shared options
ResolveWithDefaultLayer(requestInit, customRequestInit) ==
    deepMerge(<<DefaultRequestInit,
                getSharedRequestOptions(Coalesce(sharedRequestOptions, Obj(EmptyRecord))),
                requestInit, customRequestInit>>)

\* resolvedRequestParams of create and createXHR
ResolveRequestParams(requestInit, customRequestInit) ==
    deepMerge(<<Obj(EmptyRecord),
                getSharedRequestOptions(Coalesce(sharedRequestOptions, DefaultRequestInit)),
                requestInit, customRequestInit>>)

\* the response handler of a fetch call with the route-level handler first
FetchResponseHandlerRouteFirst(definition, options) ==
    Coalesce(IF definition.responseHandler = Undefined
             THEN Coalesce(defaultResponseHandler, DefaultResponseHandler)
             ELSE definition.responseHandler,
             Opt(options, "customResponseHandler"))

\* the response handler of a fetch call: the destructuring default, then `??`
FetchResponseHandler(definition, options) ==
    Coalesce(Opt(options, "customResponseHandler"),
             IF definition.responseHandler = Undefined
             THEN Coalesce(defaultResponseHandler, DefaultResponseHandler)
             ELSE definition.responseHandler)

\* the response handler of an XHR call: no default
XHRResponseHandler(definition, options) ==
    Coalesce(Opt(options, "customResponseHandler"), definition.responseHandler)

\* what a response handler returns; the built-in one parses the body as JSON
HandlerResult(handler, response, url, requestParams) ==
    IF handler = DefaultResponseHandler
    THEN [json |-> response.body]
    ELSE [by |-> handler.val, response |-> response, url |-> url,
          requestParams |-> requestParams]

Event(ev, who) == [ev |-> ev, who |-> who]

\* the supplied functions (status, response and mock handlers) that throw when called
ThrowingHandlers == {"hThrows", "throwingHandler", "throwingMock"}

\* the supplied response and mock handlers that return a rejected promise
RejectingHandlers == {"rejectingHandler", "rejectingMock"}

Throws(name) == name \in ThrowingHandlers

Rejects(name) == name \in RejectingHandlers

\* the error a failing supplied function throws or rejects with
ThrownBy(name) == "Error of " \o name

\* an XMLHttpRequest that has not been opened
NewXHR ==
    [opened |-> FALSE, method |-> Undefined, url |-> "", headers |-> EmptyRecord,
     withCredentials |-> FALSE, sent |-> FALSE, body |-> Undefined]

\* a slot without a call
IdleCall ==
    [variant |-> "none", pc |-> "idle", params |-> "", definition |-> Undefined,
     options |-> Undefined, resolved |-> Undefined, url |-> "",
     responseHandler |-> Undefined, mockHandler |-> Undefined, mockMode |-> FALSE,
     shared |-> Undefined, transport |-> Undefined, xhr |-> NewXHR, response |-> Undefined,
     listening |-> FALSE, loadends |-> 0, transportError |-> "", dispatched |-> <<>>,
     log |-> <<>>, result |-> Undefined, error |-> ""]

\* the events of the log with this name
Events(c, ev) == SelectSeq(calls[c].log, LAMBDA e : e.ev = ev)

\* the status handlers to run for a status, in the order of the Set
HandlersFor(status) ==
    IF status \in DOMAIN statusHandlers THEN statusHandlers[status] ELSE <<>>

\* forEach stops at the first handler that throws: the handlers that get called
Invoked(handlers) ==
    LET throwing == {i \in 1..Len(handlers) : Throws(handlers[i])}
    IN  IF throwing = {}
        THEN handlers
        ELSE SubSeq(handlers, 1, CHOOSE i \in throwing : \A j \in throwing : i <= j)

\* the error forEach lets through, "" when no handler throws
DispatchError(handlers) ==
    IF Invoked(handlers) # <<>> /\ Throws(Invoked(handlers)[Len(Invoked(handlers))])
    THEN ThrownBy(Invoked(handlers)[Len(Invoked(handlers))])
    ELSE ""

StatusEvents(status) ==
    [i \in 1..Len(Invoked(HandlersFor(status))) |->
        Event("status", Invoked(HandlersFor(status))[i])]

\* the object a status handler is called with
StatusParams(requestType, status, response, requestURL, requestParams) ==
    [requestType |-> requestType, status |-> status, response |-> response,
     requestURL |-> requestURL, requestParams |-> requestParams]

\* this.statusHandlers[status]?.forEach(handler => handler({...}))
Dispatch(call, status, params) ==
    [call EXCEPT !.log = @ \o StatusEvents(status),
                 !.dispatched = [i \in 1..Len(Invoked(HandlersFor(status))) |->
                                    [handler |-> Invoked(HandlersFor(status))[i],
                                     params |-> params]]]

ctl == <<base, sharedRequestOptions, defaultResponseHandler, MOCK_MODE_ENABLED,
         statusHandlers, token, onCalls, setCall>>

\* the call of a lazy sharedRequestOptions made by getSharedRequestOptions
LazyEvents ==
    IF sharedRequestOptions.kind = "function"
    THEN <<Event("sharedRequestOptions", sharedRequestOptions.val)>>
    ELSE <<>>

\* the shared options a call sees: undefined when none are configured
SharedSnapshot ==
    IF sharedRequestOptions = Undefined
    THEN Undefined
    ELSE getSharedRequestOptions(sharedRequestOptions)

\* fetch started before the mock handler is looked at
MockOrFetchEager(started, mock, requestURL, resolvedRequestParams) ==
    LET fetched ==
            [started EXCEPT !.pc = "fetching",
                            !.transport = [url |-> requestURL, init |-> resolvedRequestParams],
                            !.log = Append(@, Event("fetch", requestURL))]
    IN  IF mock.threw
        THEN [started EXCEPT !.pc = "rejected", !.error = MockHandlerNotProvided]
        ELSE IF Truthy(mock.handler)
        THEN [fetched EXCEPT !.pc = "mocking", !.mockHandler = mock.handler,
                             !.log = Append(@, Event("mock", mock.handler.val))]
        ELSE fetched

\* `if (mockHandler) return await mockHandler(params); return fetch(...)`, after
\* getMockHandler has returned or thrown
MockOrFetch(started, mock, requestURL, resolvedRequestParams) ==
    IF mock.threw
    THEN [started EXCEPT !.pc = "rejected", !.error = MockHandlerNotProvided]
    ELSE IF Truthy(mock.handler)
    THEN [started EXCEPT !.pc = "mocking", !.mockHandler = mock.handler,
                         !.log = Append(@, Event("mock", mock.handler.val))]
    ELSE [started EXCEPT !.pc = "fetching",
                         !.transport = [url |-> requestURL, init |-> resolvedRequestParams],
                         !.log = Append(@, Event("fetch", requestURL))]

\* the fetcher of create(requestCreator), up to its first suspension
CallFetch(c, params, route, options) ==
    /\ calls[c].pc = "idle"
    /\ LET definition == RouteDefinition(route, params)
           responseHandler == FetchResponseHandler(definition, options)
           requestURL == getFullPath(definition.path)
           resolvedRequestParams ==
               ResolveRequestParams(definition.requestInit, Opt(options, "customRequestInit"))
           mock == getMockHandler(Opt(options, "mock"), definition.mock)
           started ==
               [IdleCall EXCEPT !.variant = "fetch", !.params = params,
                                !.definition = definition, !.options = options,
                                !.resolved = resolvedRequestParams, !.url = requestURL,
                                !.responseHandler = responseHandler,
                                !.mockMode = MOCK_MODE_ENABLED,
                                !.shared = SharedSnapshot,
                                !.log = <<Event("requestCreator", route.prefix)>> \o LazyEvents]
       IN  calls' = [calls EXCEPT ![c] =
                        MockOrFetch(started, mock, requestURL, resolvedRequestParams)]
    /\ UNCHANGED <<ctl, heap, objects, out>>

\* the mock handler called without the params
MockResultWithoutParams(handler, params) == [by |-> handler.val, params |-> ""]

\* what a mock handler returns for params
MockResult(handler, params) == [by |-> handler.val, params |-> params]

\* a mock handler that fails switches the mock mode off
MockReturnsDisabling(c) ==
    /\ calls[c].pc = "mocking"
    /\ calls' =
         [calls EXCEPT ![c] =
            IF Throws(calls[c].mockHandler.val) \/ Rejects(calls[c].mockHandler.val)
            THEN [@ EXCEPT !.pc = "rejected", !.error = ThrownBy(calls[c].mockHandler.val)]
            ELSE [@ EXCEPT !.pc = "resolved",
                           !.result = MockResult(calls[c].mockHandler, calls[c].params)]]
    /\ MOCK_MODE_ENABLED' =
         (MOCK_MODE_ENABLED /\ ~Throws(calls[c].mockHandler.val)
                           /\ ~Rejects(calls[c].mockHandler.val))
    /\ UNCHANGED <<base, sharedRequestOptions, defaultResponseHandler, statusHandlers, token,
                   onCalls, setCall, heap, objects, out>>

\* the awaited mock handler returns
MockReturns(c) ==
    /\ calls[c].pc = "mocking"
    /\ calls' =
         [calls EXCEPT ![c] =
            IF Throws(calls[c].mockHandler.val) \/ Rejects(calls[c].mockHandler.val)
            THEN [@ EXCEPT !.pc = "rejected", !.error = ThrownBy(calls[c].mockHandler.val)]
            ELSE [@ EXCEPT !.pc = "resolved",
                           !.result = MockResult(calls[c].mockHandler, calls[c].params)]]
    /\ UNCHANGED <<ctl, heap, objects, out>>

\* the `then` callback with the response handler called before the status handlers
FetchRespondsHandlerFirst(c, response) ==
    /\ calls[c].pc = "fetching"
    /\ LET call == calls[c]
           handled ==
               [call EXCEPT !.response = response,
                            !.log = Append(@, Event("responseHandler",
                                                    call.responseHandler.val))]
       IN  calls' =
             [calls EXCEPT ![c] =
                [Dispatch(handled, response.status,
                          StatusParams("fetch", response.status, response, call.url,
                                       call.resolved))
                   EXCEPT !.pc = "handling"]]
    /\ UNCHANGED <<ctl, heap, objects, out>>

\* the `then` callback resolving the options again from the shared options of the
\* moment of the response
FetchRespondsResolvingLate(c, response) ==
    /\ calls[c].pc = "fetching"
    /\ LET call == [calls[c] EXCEPT
                       !.resolved = ResolveRequestParams(calls[c].definition.requestInit,
                                                         Opt(calls[c].options,
                                                             "customRequestInit"))]
           dispatched ==
               Dispatch([call EXCEPT !.response = response], response.status,
                        StatusParams("fetch", response.status, response, call.url,
                                     call.resolved))
           handled ==
               [dispatched EXCEPT !.log = Append(@, Event("responseHandler",
                                                          call.responseHandler.val))]
       IN  calls' = [calls EXCEPT ![c] = [handled EXCEPT !.pc = "handling"]]
    /\ UNCHANGED <<ctl, heap, objects, out>>

\* fetch resolves: the `then` callback runs the status handlers and the response
\* handler; what either throws rejects the promise of `then`
FetchResponds(c, response) ==
    /\ calls[c].pc = "fetching"
    /\ LET call == calls[c]
           dispatched ==
               Dispatch([call EXCEPT !.response = response], response.status,
                        StatusParams("fetch", response.status, response, call.url,
                                     call.resolved))
           handled ==
               [dispatched EXCEPT !.log = Append(@, Event("responseHandler",
                                                          call.responseHandler.val))]
       IN  calls' =
             [calls EXCEPT ![c] =
                IF DispatchError(HandlersFor(response.status)) # ""
                THEN [dispatched EXCEPT !.pc = "rejected",
                                        !.error = DispatchError(HandlersFor(response.status))]
                ELSE IF Throws(call.responseHandler.val)
                THEN [handled EXCEPT !.pc = "rejected",
                                     !.error = ThrownBy(call.responseHandler.val)]
                ELSE [handled EXCEPT !.pc = "handling"]]
    /\ UNCHANGED <<ctl, heap, objects, out>>

\* the reasons the transport fails with: the network, an aborted signal
TransportErrors == {"TypeError: Failed to fetch", "AbortError: The operation was aborted"}

\* a rejected fetch is tried a second time before the call rejects
FetchRejectsRetrying(c, reason) ==
    /\ calls[c].pc = "fetching"
    /\ calls' = [calls EXCEPT ![c].pc = "rejected", ![c].transportError = reason,
                              ![c].error = reason,
                              ![c].log = Append(@, Event("fetch", calls[c].url))]
    /\ UNCHANGED <<ctl, heap, objects, out>>

\* fetch rejects: the promise of fetch(...).then(...) rejects with the same reason
FetchRejects(c, reason) ==
    /\ calls[c].pc = "fetching"
    /\ calls' = [calls EXCEPT ![c].pc = "rejected", ![c].transportError = reason,
                              ![c].error = reason]
    /\ UNCHANGED <<ctl, heap, objects, out>>

\* the response kept in one place for all calls: the one of the first slot wins
RawResponseOfFirst(call) ==
    LET first == IF calls[1].response # Undefined THEN calls[1] ELSE call
    IN  IF call.variant = "xhr" THEN first.response.body ELSE first.response

\* the first argument of the response handler: the Response, or xhr.response
RawResponse(call) ==
    IF call.variant = "xhr" THEN call.response.body ELSE call.response

\* the response handler given the path of the route in place of the URL
HandlerURLPathOnly(call) == call.definition.path

\* the second argument of the response handler: this.getFullPath(path) once more
\* in create, requestURL in createXHR
HandlerURL(call) ==
    IF call.variant = "fetch" THEN getFullPath(call.definition.path) ELSE call.url

\* the promise the response handler returned settles, and the call with it
ResponseHandled(c) ==
    /\ calls[c].pc = "handling"
    /\ calls' =
         [calls EXCEPT ![c] =
            IF Rejects(calls[c].responseHandler.val)
            THEN [@ EXCEPT !.pc = "rejected", !.error = ThrownBy(calls[c].responseHandler.val)]
            ELSE [@ EXCEPT !.pc = "resolved",
                           !.result = HandlerResult(calls[c].responseHandler,
                                                    RawResponse(calls[c]), HandlerURL(calls[c]),
                                                    calls[c].resolved)]]
    /\ UNCHANGED <<ctl, heap, objects, out>>

\* the fetcher of createXHR(requestCreator): returns {xhr, sendRequest}
CallXHR(c, params, route, options) ==
    /\ calls[c].pc = "idle"
    /\ LET definition == RouteDefinition(route, params)
           resolvedRequestParams ==
               ResolveRequestParams(definition.requestInit, Opt(options, "customRequestInit"))
       IN  calls' =
             [calls EXCEPT ![c] =
                [IdleCall EXCEPT !.variant = "xhr", !.pc = "created", !.params = params,
                                 !.definition = definition, !.options = options,
                                 !.resolved = resolvedRequestParams,
                                 !.responseHandler = XHRResponseHandler(definition, options),
                                 !.shared = SharedSnapshot,
                                 !.log = <<Event("requestCreator", route.prefix)>> \o LazyEvents]]
    /\ UNCHANGED <<ctl, heap, objects, out>>

\* every entry of the headers set as a header, whatever its value
AllHeaders(headers) ==
    IF headers.kind \in {"object", "array"}
    THEN [h \in EnumKeys(headers) |->
            IF Get(headers, h).kind = "string" THEN Get(headers, h).val ELSE "[object]"]
    ELSE EmptyRecord

\* Object.entries(headers) with a string value, when headers instanceof Object
StringHeaders(headers) ==
    IF headers.kind \in {"object", "array"}
    THEN LET names == {h \in EnumKeys(headers) : Get(headers, h).kind = "string"}
         IN  [h \in names |-> Get(headers, h).val]
    ELSE EmptyRecord

\* resolvedRequestParams.field, undefined when the key is missing
Field(record, field) ==
    IF field \in DOMAIN record.val THEN record.val[field] ELSE Undefined

\* a body that is never taken for a ReadableStream
NeverReadableStream(body) == FALSE

\* body instanceof ReadableStream
IsReadableStream(body) == body = Stream

\* the listeners added before the request is opened
SendStepsListenersFirst(requestURL) ==
    <<Event("addEventListener", requestURL), Event("open", requestURL),
      Event("send", requestURL)>>

\* the calls on the XMLHttpRequest in the executor of sendRequest: xhr.open, the
\* three xhr.addEventListener, xhr.send
SendSteps(requestURL) ==
    <<Event("open", requestURL), Event("addEventListener", requestURL),
      Event("send", requestURL)>>

\* sendRequest() resolving the options again from the shared options of its moment
SendRequestResolvingLate(c) ==
    /\ calls[c].pc = "created"
    /\ LET call == [calls[c] EXCEPT
                       !.resolved = ResolveRequestParams(calls[c].definition.requestInit,
                                                         Opt(calls[c].options,
                                                             "customRequestInit"))]
           mock == getMockHandler(Opt(call.options, "mock"), call.definition.mock)
           requestURL == getFullPath(call.definition.path)
           method == Coalesce(Field(call.resolved, "method"), Field(DefaultRequestInit, "method"))
           body == Field(call.resolved, "body")
           opened ==
               [call.xhr EXCEPT !.opened = TRUE, !.method = method, !.url = requestURL,
                                !.headers = StringHeaders(Field(call.resolved, "headers")),
                                !.withCredentials =
                                    (Field(call.resolved, "credentials") = Str("include"))]
           decided == [call EXCEPT !.mockMode = MOCK_MODE_ENABLED]
       IN  calls' =
             [calls EXCEPT ![c] =
                IF mock.threw
                THEN [decided EXCEPT !.pc = "rejected", !.error = MockHandlerNotProvided]
                ELSE IF Truthy(mock.handler)
                THEN [decided EXCEPT !.pc = "mocking", !.mockHandler = mock.handler,
                                     !.log = Append(@, Event("mock", mock.handler.val))]
                ELSE IF IsReadableStream(body)
                THEN [decided EXCEPT !.pc = "rejected", !.error = CannotSendStream,
                                     !.xhr = opened, !.url = requestURL,
                                     !.log = Append(@, Event("open", requestURL))]
                ELSE [decided EXCEPT !.pc = "sent", !.url = requestURL, !.listening = TRUE,
                                     !.xhr = [opened EXCEPT !.sent = TRUE, !.body = body],
                                     !.transport = [url |-> requestURL, init |-> call.resolved],
                                     !.log = @ \o SendSteps(requestURL)]]
    /\ UNCHANGED <<ctl, heap, objects, out>>

\* sendRequest(), up to its first suspension
SendRequest(c) ==
    /\ calls[c].pc = "created"
    /\ LET call == calls[c]
           mock == getMockHandler(Opt(call.options, "mock"), call.definition.mock)
           requestURL == getFullPath(call.definition.path)
           method == Coalesce(Field(call.resolved, "method"), Field(DefaultRequestInit, "method"))
           body == Field(call.resolved, "body")
           opened ==
               [call.xhr EXCEPT !.opened = TRUE, !.method = method, !.url = requestURL,
                                !.headers = StringHeaders(Field(call.resolved, "headers")),
                                !.withCredentials =
                                    (Field(call.resolved, "credentials") = Str("include"))]
           decided == [call EXCEPT !.mockMode = MOCK_MODE_ENABLED]
       IN  calls' =
             [calls EXCEPT ![c] =
                IF mock.threw
                THEN [decided EXCEPT !.pc = "rejected", !.error = MockHandlerNotProvided]
                ELSE IF Truthy(mock.handler)
                THEN [decided EXCEPT !.pc = "mocking", !.mockHandler = mock.handler,
                                     !.log = Append(@, Event("mock", mock.handler.val))]
                ELSE IF IsReadableStream(body)
                THEN [decided EXCEPT !.pc = "rejected", !.error = CannotSendStream,
                                     !.xhr = opened, !.url = requestURL,
                                     !.log = Append(@, Event("open", requestURL))]
                ELSE [decided EXCEPT !.pc = "sent", !.url = requestURL, !.listening = TRUE,
                                     !.xhr = [opened EXCEPT !.sent = TRUE, !.body = body],
                                     !.transport = [url |-> requestURL, init |-> call.resolved],
                                     !.log = @ \o SendSteps(requestURL)]]
    /\ UNCHANGED <<ctl, heap, objects, out>>

\* a loadend listener added without {once: true}: it stays attached
ListenerKept(call) == call

\* {once: true}: the listener is removed when it is invoked
ListenerOnce(call) == [call EXCEPT !.listening = FALSE]

\* the body of the loadend listener: the status handlers of xhr.status, then the
\* response handler.  What a status handler or the response handler throws, as does
\* calling an undefined responseHandler, leaves the listener at that point.
ListenerBody(call, response) ==
    LET dispatched ==
            Dispatch([call EXCEPT !.response = response], response.status,
                     StatusParams("xhr", response.status, response.body, call.url,
                                  call.resolved))
        ran == [dispatched EXCEPT !.dispatched = call.dispatched \o @]
    IN  IF DispatchError(HandlersFor(response.status)) # ""
           \/ call.responseHandler.kind # "function"
        THEN ran
        ELSE [ran EXCEPT !.log = Append(@, Event("responseHandler",
                                                 call.responseHandler.val))]

\* the listener got as far as resolve(responseHandler(...)) with a promise
ListenerResolves(call, response) ==
    /\ DispatchError(HandlersFor(response.status)) = ""
    /\ call.responseHandler.kind = "function"
    /\ ~Throws(call.responseHandler.val)

\* loadend after a response: the listener runs the status handlers, then
\* resolve(responseHandler(...)).  The listener is an async function: when it is left
\* by a throw its promise rejects, which nobody holds; resolve and reject are never
\* called.
XHRLoadend(c, response) ==
    /\ calls[c].pc = "sent"
    /\ LET call == calls[c]
           ran == ListenerOnce([ListenerBody(call, response) EXCEPT !.loadends = 1])
       IN  calls' =
             [calls EXCEPT ![c] =
                IF ListenerResolves(call, response)
                THEN [ran EXCEPT !.pc = "handling"]
                ELSE [ran EXCEPT !.pc = "stalled"]]
    /\ UNCHANGED <<ctl, heap, objects, out>>

\* xhr.status and xhr.response after a network error or an abort
FailedResponse == [status |-> 0, body |-> ""]

\* error and abort without a listener: only the loadend listener runs
XHRFailsUnheard(c, event) ==
    /\ calls[c].pc = "sent"
    /\ LET call == [calls[c] EXCEPT !.transportError = event]
           ran == ListenerOnce([ListenerBody(call, FailedResponse) EXCEPT !.loadends = 1])
       IN  calls' =
             [calls EXCEPT ![c] =
                IF ListenerResolves(call, FailedResponse)
                THEN [ran EXCEPT !.pc = "handling"]
                ELSE [ran EXCEPT !.pc = "stalled"]]
    /\ UNCHANGED <<ctl, heap, objects, out>>

\* the error or abort event of the request: the listener `reject` is called with the
\* event, then loadend is fired and its listener runs with xhr.status 0; its resolve
\* has no effect on the rejected promise
XHRFails(c, event) ==
    /\ calls[c].pc = "sent"
    /\ LET call == calls[c]
           rejected == [call EXCEPT !.pc = "rejected", !.error = event,
                                    !.transportError = event]
       IN  calls' =
             [calls EXCEPT ![c] =
                ListenerOnce([ListenerBody(rejected, FailedResponse) EXCEPT !.loadends = 1])]
    /\ UNCHANGED <<ctl, heap, objects, out>>

\* loadend is fired at most this often for one request
MaxLoadends == 2

\* loadend is fired once more for the same request: the listener runs again when it
\* is still attached; resolve has no effect on a promise that is resolved already
XHRLoadendAgain(c) ==
    /\ calls[c].loadends \in 1..(MaxLoadends - 1)
    /\ LET call == calls[c]
           response == call.response
           counted == [call EXCEPT !.loadends = @ + 1]
       IN  calls' =
             [calls EXCEPT ![c] =
                IF call.listening
                THEN ListenerOnce(ListenerBody(counted, response))
                ELSE counted]
    /\ UNCHANGED <<ctl, heap, objects, out>>

\* api.MOCK_MODE_ENABLED = value
SetMockMode(value) ==
    /\ MOCK_MODE_ENABLED # value
    /\ MOCK_MODE_ENABLED' = value
    /\ UNCHANGED <<base, sharedRequestOptions, defaultResponseHandler, statusHandlers, token,
                   onCalls, setCall, calls, heap, objects, out>>

\* the sequence without the handler
Without(handlers, handler) == SelectSeq(handlers, LAMBDA h : h # handler)

\* on(status, handler) is called at most this often for a registered handler
MaxOnCalls == 2

\* the number of on(status, handler) calls that stand for a registered handler
OnCallsOf(status, handler) ==
    IF <<status, handler>> \in DOMAIN onCalls THEN onCalls[<<status, handler>>] ELSE 0

\* on(status, handler) with a list in place of the Set: every call appends
OnAppending(status, handler) ==
    /\ OnCallsOf(status, handler) < MaxOnCalls
    /\ statusHandlers' =
         [s \in DOMAIN statusHandlers \cup {status} |->
             IF s = status THEN Append(HandlersFor(status), handler) ELSE statusHandlers[s]]
    /\ onCalls' = [p \in DOMAIN onCalls \cup {<<status, handler>>} |->
                      IF p = <<status, handler>> THEN OnCallsOf(status, handler) + 1
                      ELSE onCalls[p]]
    /\ UNCHANGED <<base, sharedRequestOptions, defaultResponseHandler, MOCK_MODE_ENABLED,
                   token, setCall, calls, heap, objects, out>>

\* on(status, handler): the Set is created when missing; Set.add keeps the first
\* insertion of a handler
On(status, handler) ==
    /\ OnCallsOf(status, handler) < MaxOnCalls
    /\ statusHandlers' =
         IF status \notin DOMAIN statusHandlers
         THEN [s \in DOMAIN statusHandlers \cup {status} |->
                 IF s = status THEN <<handler>> ELSE statusHandlers[s]]
         ELSE IF \E i \in 1..Len(statusHandlers[status]) : statusHandlers[status][i] = handler
         THEN statusHandlers
         ELSE [statusHandlers EXCEPT ![status] = Append(@, handler)]
    /\ onCalls' = [p \in DOMAIN onCalls \cup {<<status, handler>>} |->
                      IF p = <<status, handler>> THEN OnCallsOf(status, handler) + 1
                      ELSE onCalls[p]]
    /\ UNCHANGED <<base, sharedRequestOptions, defaultResponseHandler, MOCK_MODE_ENABLED,
                   token, setCall, calls, heap, objects, out>>

\* off(status, handler): the handler is deleted from the Set, which stays
OffHandler(status, handler) ==
    /\ status \in DOMAIN statusHandlers
    /\ statusHandlers' = [statusHandlers EXCEPT ![status] = Without(@, handler)]
    /\ statusHandlers' # statusHandlers
    /\ onCalls' = [p \in DOMAIN onCalls \ {<<status, handler>>} |-> onCalls[p]]
    /\ UNCHANGED <<base, sharedRequestOptions, defaultResponseHandler, MOCK_MODE_ENABLED,
                   token, setCall, calls, heap, objects, out>>

\* off(status): the entry of the status is deleted
OffStatus(status) ==
    /\ status \in DOMAIN statusHandlers
    /\ statusHandlers' = [s \in DOMAIN statusHandlers \ {status} |-> statusHandlers[s]]
    /\ onCalls' = [p \in {q \in DOMAIN onCalls : q[1] # status} |-> onCalls[p]]
    /\ UNCHANGED <<base, sharedRequestOptions, defaultResponseHandler, MOCK_MODE_ENABLED,
                   token, setCall, calls, heap, objects, out>>

\* the updaters of the model: (current) => ({...current, headers: {"Content-Type": ...}})
\* and, by the name withMethod, (current) => ({...current, method: "DELETE"})
UpdaterResult(updater, current) ==
    IF updater = "withMethod"
    THEN Obj([key \in DOMAIN current.val \cup {"method"} |->
                 IF key = "method" THEN Str("DELETE") ELSE current.val[key]])
    ELSE Obj([key \in DOMAIN current.val \cup {"headers"} |->
                 IF key = "headers"
                 THEN Obj([ContentType |-> Str("application/json")])
                 ELSE current.val[key]])

\* the updater given the snapshot a call would resolve, the default included
CurrentOptionsWithDefault ==
    getSharedRequestOptions(Coalesce(sharedRequestOptions, DefaultRequestInit))

\* getSharedRequestOptions(this.config.sharedRequestOptions ?? {})
CurrentOptions == getSharedRequestOptions(Coalesce(sharedRequestOptions, Obj(EmptyRecord)))

\* the new options merged into the shared options there were
SharedOptionsMerged(requestInit) ==
    IF requestInit.kind = "function"
    THEN UpdaterResult(requestInit.val, CurrentOptions)
    ELSE deepMerge(<<CurrentOptions, requestInit>>)

\* an updater over a lazy function stored as a function again: the lazy one is kept
SharedOptionsLazyKept(requestInit) ==
    IF requestInit.kind = "function"
    THEN IF sharedRequestOptions.kind = "function"
         THEN sharedRequestOptions
         ELSE UpdaterResult(requestInit.val, CurrentOptions)
    ELSE requestInit

\* typeof requestInit === "function" ? requestInit(current) : requestInit
SharedOptionsAfter(requestInit) ==
    IF requestInit.kind = "function"
    THEN UpdaterResult(requestInit.val, CurrentOptions)
    ELSE requestInit

\* no call of setSharedRequestOptions yet
NoSetCall == [requestInit |-> Undefined, current |-> Undefined]

\* setSharedRequestOptions(requestInit): a record replaces the shared options, a
\* function is given the current ones and its result replaces them
SetSharedRequestOptions(requestInit) ==
    /\ sharedRequestOptions' = SharedOptionsAfter(requestInit)
    /\ setCall' = [requestInit |-> requestInit,
                   current |-> IF requestInit.kind = "function"
                               THEN CurrentOptions ELSE Undefined]
    /\ <<sharedRequestOptions, setCall>>' # <<sharedRequestOptions, setCall>>
    /\ UNCHANGED <<base, defaultResponseHandler, MOCK_MODE_ENABLED, statusHandlers, token,
                   onCalls, calls, heap, objects, out>>

\* the state a lazy sharedRequestOptions reads changes
SetToken(value) ==
    /\ token # value
    /\ token' = value
    /\ UNCHANGED <<base, sharedRequestOptions, defaultResponseHandler, MOCK_MODE_ENABLED,
                   statusHandlers, onCalls, setCall, calls, heap, objects, out>>

(***************************************************************************)
(* The inputs of the model                                                 *)
(***************************************************************************)
NoOnCalls == [p \in {} |-> 0]

\* no object is allocated
NoHeap == <<>>

Slots == {1}

Params == {"1", "2"}

Tokens == {"t1", "t2"}

StatusCodes == {200, 404}

StatusHandlerNames == {"h1"}

Responses == {[status |-> s, body |-> "John Doe"] : s \in StatusCodes}

Mock(enabled, handler) == [kind |-> "object", enabled |-> enabled, handler |-> handler]

Route(requestInit, mock, responseHandler) ==
    [prefix |-> "/users/", requestInit |-> requestInit, mock |-> mock,
     responseHandler |-> responseHandler]

CallOptions(customRequestInit, customResponseHandler, mock) ==
    [customRequestInit |-> customRequestInit,
     customResponseHandler |-> customResponseHandler, mock |-> mock]

\* headers given as an array of [name, value] pairs
HeaderPairs(name, value) == Arr(<<Arr(<<Str(name), Str(value)>>)>>)

\* config.sharedRequestOptions at construction
SharedChoices ==
    {Undefined,
     Obj([method |-> Str("PATCH")]),
     Obj([credentials |-> Str("include")]),
     Obj([headers |-> HeaderPairs("S", "0")]),
     Fn("tokenHeaders")}

\* requestInit of a route definition
RouteInits ==
    {Undefined,
     Obj([method |-> Str("PUT")]),
     Obj([headers |-> Obj([A |-> Str("1")])]),
     Obj([headers |-> HeaderPairs("A", "1")])}

\* customRequestInit of a call
CallInits ==
    {Undefined,
     Obj([method |-> Str("POST")]),
     Obj([headers |-> Obj([A |-> Str("2"), B |-> Num(2)]), credentials |-> Str("include")]),
     Obj([headers |-> HeaderPairs("B", "2")])}

\* the arguments of setSharedRequestOptions
SetChoices ==
    {Obj([headers |-> Obj([ContentType |-> Str("application/json")])]),
     Obj([method |-> Str("DELETE")]),
     Fn("withContentType")}

RouteMocks ==
    {Undefined, Mock(Undefined, Fn("routeMock")), Mock(Bool(TRUE), Undefined),
     Mock(Bool(TRUE), Fn("routeMock"))}

CallMocks ==
    {Undefined, Mock(Bool(TRUE), Undefined), Mock(Bool(FALSE), Undefined),
     Mock(Undefined, Fn("callMock")), Mock(Bool(TRUE), Fn("callMock")),
     Mock(Bool(FALSE), Fn("callMock"))}

(***************************************************************************)
(* Option resolution: the three layers vary, nothing is mocked             *)
(***************************************************************************)
OptionRoutes == {Route(requestInit, Undefined, Fn("routeHandler")) : requestInit \in RouteInits}

OptionCalls ==
    {Undefined} \cup {CallOptions(init, Undefined, Undefined) : init \in CallInits \ {Undefined}}

InitOptions ==
    /\ base = "https://api.example.com"
    /\ sharedRequestOptions \in SharedChoices
    /\ defaultResponseHandler = Undefined
    /\ MOCK_MODE_ENABLED = FALSE
    /\ statusHandlers = [s \in {} |-> <<>>]
    /\ token = "t1"
    /\ onCalls = NoOnCalls
    /\ setCall = NoSetCall
    /\ calls = [c \in Slots |-> IdleCall]
    /\ heap = NoHeap
    /\ objects = <<>>
    /\ out = Undefined

NextOptions ==
    \/ \E c \in Slots, params \in Params, route \in OptionRoutes, options \in OptionCalls :
          CallFetch(c, params, route, options)
    \/ \E c \in Slots, params \in Params, route \in OptionRoutes, options \in OptionCalls :
          CallXHR(c, params, route, options)
    \/ \E c \in Slots : SendRequest(c)
    \/ \E c \in Slots, response \in Responses : FetchResponds(c, response)
    \/ \E c \in Slots, response \in Responses : XHRLoadend(c, response)
    \/ \E c \in Slots : ResponseHandled(c)
    \/ \E requestInit \in SetChoices : SetSharedRequestOptions(requestInit)
    \/ \E value \in Tokens : SetToken(value)

SpecOptions == InitOptions /\ [][NextOptions]_vars

(***************************************************************************)
(* Mocking and response handlers: the mock descriptors, the response       *)
(* handlers, the mock-mode flag and the status handlers vary               *)
(***************************************************************************)
MockRoutes ==
    {Route(Undefined, mock, handler) :
        mock \in RouteMocks, handler \in {Undefined, Fn("routeHandler")}}

MockCalls ==
    {Undefined} \cup
    {CallOptions(Undefined, handler, mock) :
        handler \in {Undefined, Fn("customHandler")}, mock \in CallMocks}

Init ==
    /\ base = "https://api.example.com"
    /\ sharedRequestOptions = Undefined
    /\ defaultResponseHandler \in {Undefined, Fn("configHandler")}
    /\ MOCK_MODE_ENABLED = FALSE
    /\ statusHandlers = [s \in {} |-> <<>>]
    /\ token = "t1"
    /\ onCalls = NoOnCalls
    /\ setCall = NoSetCall
    /\ calls = [c \in Slots |-> IdleCall]
    /\ heap = NoHeap
    /\ objects = <<>>
    /\ out = Undefined

Next ==
    \/ \E c \in Slots, params \in Params, route \in MockRoutes, options \in MockCalls :
          CallFetch(c, params, route, options)
    \/ \E c \in Slots, params \in Params, route \in MockRoutes, options \in MockCalls :
          CallXHR(c, params, route, options)
    \/ \E c \in Slots : SendRequest(c)
    \/ \E c \in Slots : MockReturns(c)
    \/ \E c \in Slots, response \in Responses : FetchResponds(c, response)
    \/ \E c \in Slots : FetchRejects(c, "TypeError: Failed to fetch")
    \/ \E c \in Slots, response \in Responses : XHRLoadend(c, response)
    \/ \E c \in Slots : ResponseHandled(c)
    \/ \E value \in BOOLEAN : SetMockMode(value)
    \/ \E status \in StatusCodes, handler \in StatusHandlerNames : On(status, handler)
    \/ \E status \in StatusCodes, handler \in StatusHandlerNames : OffHandler(status, handler)
    \/ \E status \in StatusCodes : OffStatus(status)

Spec == Init /\ [][Next]_vars

(***************************************************************************)
(* deepMerge on its own: the arguments are drawn from bounded nested       *)
(* records, arrays, strings and null.                                      *)
(***************************************************************************)
MaxNum == 2

Nums == {Num(n) : n \in 1..MaxNum}

\* nested records of depth one and two over the keys x, y, z
InnerRecords ==
    {Obj([x |-> n]) : n \in Nums} \cup {Obj([y |-> Num(1)])}
        \cup {Obj([x |-> Obj([z |-> n])]) : n \in Nums}
        \cup {Obj([x |-> Obj([y |-> Num(1)])])}

MergeValues ==
    Nums \cup {Str("ab"), Null, Arr(<<Num(1), Num(2)>>), Arr(<<Num(2)>>)} \cup InnerRecords

\* the records {k?: value, j?: number}, and undefined
MergeInputs ==
    {Undefined, Obj(EmptyRecord)}
        \cup {Obj([k |-> v]) : v \in MergeValues}
        \cup {Obj([j |-> n]) : n \in Nums}
        \cup {Obj([k |-> v, j |-> n]) : v \in MergeValues, n \in Nums}

NoCalls == [c \in {} |-> Undefined]

InitMerge ==
    /\ base = ""
    /\ sharedRequestOptions = Undefined
    /\ defaultResponseHandler = Undefined
    /\ MOCK_MODE_ENABLED = FALSE
    /\ statusHandlers = [s \in {} |-> <<>>]
    /\ token = "t1"
    /\ onCalls = NoOnCalls
    /\ setCall = NoSetCall
    /\ calls = NoCalls
    /\ heap = NoHeap
    /\ objects \in MergeInputs \X MergeInputs \X MergeInputs
    /\ out = Undefined

\* deepMerge(A, B, C)
ApplyDeepMerge ==
    /\ out = Undefined
    /\ out' = deepMerge(objects)
    /\ UNCHANGED <<base, sharedRequestOptions, defaultResponseHandler, MOCK_MODE_ENABLED,
                   statusHandlers, token, onCalls, setCall, calls, heap, objects>>

NextMerge == ApplyDeepMerge

SpecMerge == InitMerge /\ [][NextMerge]_vars

(***************************************************************************)
(* Properties of deepMerge                                                 *)
(***************************************************************************)
RECURSIVE PrimitiveLeaved(_)
\* a primitive, or a nested record whose leaves are all primitives
PrimitiveLeaved(v) ==
    \/ v.kind \in {"number", "string", "null"}
    \/ /\ IsRecord(v)
       /\ \A key \in DOMAIN v.val : PrimitiveLeaved(v.val[key])

\* the arguments are records with primitive leaves (or undefined, which is skipped)
RecordArguments ==
    \A i \in 1..Len(objects) :
        objects[i] = Undefined \/ (IsRecord(objects[i]) /\ PrimitiveLeaved(objects[i]))

\* the values of key in the records of sources that have it, in order
ValuesAt(sources, key) ==
    LET having == SelectSeq(sources, LAMBDA s : key \in DOMAIN s.val)
    IN  [i \in 1..Len(having) |-> having[i].val[key]]

AllKeys(sources) == UNION {DOMAIN sources[i].val : i \in 1..Len(sources)}

RECURSIVE MergedAsClaimed(_, _)
MergedAsClaimed(result, sources) ==
    /\ IsRecord(result)
    /\ \A key \in AllKeys(sources) :
          LET vs == ValuesAt(sources, key)
          IN  /\ key \in DOMAIN result.val
              /\ Len(vs) = 1 => result.val[key] = vs[1]
              /\ (Len(vs) > 1 /\ \A i \in 1..Len(vs) : IsRecord(vs[i]))
                    => MergedAsClaimed(result.val[key], vs)
              /\ (Len(vs) > 1 /\ ~IsRecord(vs[Len(vs)]))
                    => result.val[key] = vs[Len(vs)]

\* C3: over records with primitive leaves, a key of a single source keeps that
\* source's value, a key whose values are all records is merged recursively key by
\* key, and a conflict ending in a leaf resolves to the last source's leaf.
DeepMergeOfRecords ==
    (out # Undefined /\ RecordArguments)
        => MergedAsClaimed(out, SelectSeq(objects, IsRecord))

\* C3 witness: a key of one source only, a key merged recursively, a nested leaf conflict
DeepMergeOfRecordsWitness ==
    /\ heap = NoHeap
    /\ objects = <<Obj([k |-> Obj([x |-> Num(1)]), j |-> Num(1)]),
                   Obj([k |-> Obj([x |-> Num(2)])]),
                   Obj([k |-> Obj([y |-> Num(1)])])>>
    /\ out = Obj([k |-> Obj([x |-> Num(2), y |-> Num(1)]), j |-> Num(1)])

\* C4: when the existing and the incoming value of a key are not both non-null
\* records, the merged value of the key is exactly the incoming value.
IncomingReplacesUnlessBothRecords ==
    (out # Undefined /\ IsRecord(objects[3]))
        => LET existing == deepMerge(<<objects[1], objects[2]>>).val
               incoming == objects[3].val
           IN  \A key \in DOMAIN existing \cap DOMAIN incoming :
                  ~(IsRecord(existing[key]) /\ IsRecord(incoming[key]))
                      => out.val[key] = incoming[key]

(***************************************************************************)
(* Properties of option resolution                                         *)
(***************************************************************************)
LayerKeys(layer) == IF IsRecord(layer) THEN DOMAIN layer.val ELSE {}

\* the shared, the route-level and the call-level options of a call, lowest first
Layers(c) ==
    <<calls[c].shared, calls[c].definition.requestInit,
      Opt(calls[c].options, "customRequestInit")>>

LayersWith(c, key) == {i \in 1..3 : key \in LayerKeys(Layers(c)[i])}

\* the value of the key in the highest layer that has it
TopValue(c, key) ==
    Layers(c)[CHOOSE i \in LayersWith(c, key) : \A j \in LayersWith(c, key) : j <= i].val[key]

RECURSIVE Carries(_, _)
\* the resolved value is the layer's value; of a record it has every key, recursively
Carries(resolved, value) ==
    IF IsRecord(value)
    THEN /\ IsRecord(resolved)
         /\ \A key \in DOMAIN value.val :
               key \in DOMAIN resolved.val /\ Carries(resolved.val[key], value.val[key])
    ELSE resolved = value

\* C1: a key of more than one layer reaches the transport with the value of the
\* highest layer that has it: call-level over route-level over shared.
HighestLayerWins ==
    \A c \in DOMAIN calls :
        calls[c].transport # Undefined
            => \A key \in {k \in UNION {LayerKeys(Layers(c)[i]) : i \in 1..3} :
                              Cardinality(LayersWith(c, k)) > 1} :
                  /\ key \in DOMAIN calls[c].transport.init.val
                  /\ Carries(calls[c].transport.init.val[key], TopValue(c, key))

NoLayerSetsMethod(c) == LayersWith(c, "method") = {}

\* C2 as claimed: whenever no layer sets method, the transport is given method GET.
MethodDefaultsToGET ==
    \A c \in DOMAIN calls :
        (calls[c].transport # Undefined /\ NoLayerSetsMethod(c))
            => Field(calls[c].transport.init, "method") = Str("GET")

\* C2 as amended: {method: GET} stands in for the shared options only when none are
\* configured; with shared options configured and no layer setting method the
\* resolved options have no method key, and the XHR is opened with GET all the same.
DefaultMethodOnlyWithoutSharedOptions ==
    \A c \in DOMAIN calls :
        (calls[c].resolved # Undefined /\ NoLayerSetsMethod(c))
            => /\ calls[c].shared = Undefined
                    => Field(calls[c].resolved, "method") = Str("GET")
               /\ calls[c].shared # Undefined
                    => "method" \notin DOMAIN calls[c].resolved.val
               /\ calls[c].transport # Undefined
                    => calls[c].transport.init = calls[c].resolved
               /\ calls[c].xhr.opened => calls[c].xhr.method = Str("GET")

\* C2 witness: shared options without method, no method in any layer, fetch called
\* with options that have no method key
DefaultMethodWitness ==
    \E c \in DOMAIN calls :
        /\ calls[c].variant = "fetch"
        /\ calls[c].pc = "fetching"
        /\ calls[c].shared = Obj([credentials |-> Str("include")])
        /\ NoLayerSetsMethod(c)
        /\ "method" \notin DOMAIN calls[c].transport.init.val

(***************************************************************************)
(* Properties of mocking and of the response handler                       *)
(***************************************************************************)
\* getMockHandler has run for the call
MockDecided(c) ==
    \/ calls[c].variant = "fetch" /\ calls[c].pc # "idle"
    \/ calls[c].variant = "xhr" /\ calls[c].pc \notin {"idle", "created"}

CallMock(c) == Opt(calls[c].options, "mock")

RouteMock(c) == calls[c].definition.mock

NoMockHandler(c) ==
    MockHandlerOf(CallMock(c)) = Undefined /\ MockHandlerOf(RouteMock(c)) = Undefined

ExplicitlyEnabled(c) == MockEnabled(CallMock(c)) \/ MockEnabled(RouteMock(c))

\* fetch was called, or xhr.send was
TransportInvocations(c) == Len(Events(c, "fetch")) + Len(Events(c, "send"))

TransportUntouched(c) ==
    /\ TransportInvocations(c) = 0
    /\ Events(c, "open") = <<>>
    /\ calls[c].transport = Undefined
    /\ ~calls[c].xhr.opened
    /\ ~calls[c].xhr.sent

\* C5: once a mock handler is resolved for a call, the transport is never invoked,
\* no status handler and no response handler runs, and the call resolves with the
\* value the mock handler returned for the call's params.
MockedCallBypassesTransport ==
    \A c \in DOMAIN calls :
        calls[c].mockHandler # Undefined
            => /\ TransportUntouched(c)
               /\ Events(c, "status") = <<>>
               /\ Events(c, "responseHandler") = <<>>
               /\ Events(c, "mock") = <<Event("mock", calls[c].mockHandler.val)>>
               /\ calls[c].pc \in {"mocking", "resolved"}
               /\ calls[c].pc = "resolved"
                    => calls[c].result =
                         [by |-> calls[c].mockHandler.val, params |-> calls[c].params]

\* C5 witness: a mocked call resolved while a handler is registered for status 200
MockedCallWitness ==
    \E c \in DOMAIN calls :
        /\ calls[c].pc = "resolved"
        /\ calls[c].mockHandler = Fn("routeMock")
        /\ calls[c].params = "2"
        /\ calls[c].result = [by |-> "routeMock", params |-> "2"]
        /\ 200 \in DOMAIN statusHandlers
        /\ statusHandlers[200] = <<"h1">>

\* C6 as claimed: enabled = true without any handler rejects the call with the
\* missing-handler error and never invokes the transport, whatever the global flag.
MissingMockHandlerAlwaysRejects ==
    \A c \in DOMAIN calls :
        (MockDecided(c) /\ ExplicitlyEnabled(c) /\ NoMockHandler(c))
            => /\ calls[c].pc = "rejected"
               /\ calls[c].error = MockHandlerNotProvided
               /\ TransportUntouched(c)

\* C6 as amended: it does so when the global flag is false at the mock decision;
\* when the flag is true the call does not reject and makes the real request.
MissingMockHandlerRejectsUnlessMockMode ==
    \A c \in DOMAIN calls :
        (MockDecided(c) /\ ExplicitlyEnabled(c) /\ NoMockHandler(c))
            => /\ ~calls[c].mockMode
                    => /\ calls[c].pc = "rejected"
                       /\ calls[c].error = MockHandlerNotProvided
                       /\ TransportUntouched(c)
               /\ calls[c].mockMode
                    => /\ calls[c].error # MockHandlerNotProvided
                       /\ TransportInvocations(c) = 1

\* C6 witness: a call with enabled = true and no handler rejected, the flag being false
MissingMockHandlerWitness ==
    \E c \in DOMAIN calls :
        /\ MockDecided(c)
        /\ CallMock(c) = Mock(Bool(TRUE), Undefined)
        /\ NoMockHandler(c)
        /\ ~calls[c].mockMode
        /\ calls[c].pc = "rejected"
        /\ calls[c].error = MockHandlerNotProvided

\* C7: under the global flag, without any mock handler and without enabled = true,
\* the real request is made exactly once and no mock error occurs.
GlobalMockModeIsAdvisory ==
    \A c \in DOMAIN calls :
        (MockDecided(c) /\ calls[c].mockMode /\ NoMockHandler(c) /\ ~ExplicitlyEnabled(c))
            => /\ TransportInvocations(c) = 1
               /\ calls[c].error # MockHandlerNotProvided
               /\ Events(c, "mock") = <<>>

\* C7 witness: such a call resolved with the result of its response handler
GlobalMockModeWitness ==
    \E c \in DOMAIN calls :
        /\ calls[c].mockMode
        /\ NoMockHandler(c)
        /\ ~ExplicitlyEnabled(c)
        /\ calls[c].pc = "resolved"
        /\ Len(Events(c, "fetch")) = 1

\* C8: the call-level mock handler is the one invoked whenever there is one; the
\* route-level handler is invoked only without a call-level handler.
CallLevelMockHandlerWins ==
    \A c \in DOMAIN calls :
        Events(c, "mock") # <<>>
            => Events(c, "mock") =
                 <<Event("mock", (IF MockHandlerOf(CallMock(c)) # Undefined
                                  THEN MockHandlerOf(CallMock(c))
                                  ELSE MockHandlerOf(RouteMock(c))).val)>>

\* C8 witness: both handlers exist and the call resolved with the call-level one's value
CallLevelMockHandlerWitness ==
    \E c \in DOMAIN calls :
        /\ MockHandlerOf(CallMock(c)) = Fn("callMock")
        /\ MockHandlerOf(RouteMock(c)) = Fn("routeMock")
        /\ calls[c].pc = "resolved"
        /\ calls[c].result.by = "callMock"
        /\ Events(c, "mock") = <<Event("mock", "callMock")>>

MockActive(c) == calls[c].mockMode \/ ExplicitlyEnabled(c)

\* C9: a mock handler is invoked only if the global flag, the call-level enabled or
\* the route-level enabled is true; when none is, the real request is made; and an
\* existing handler is invoked whenever one of the three is true, so a call-level
\* enabled = false cancels neither the route-level enabled nor the global flag.
MockingAttemptedIffActivated ==
    \A c \in DOMAIN calls :
        MockDecided(c)
            => /\ Events(c, "mock") # <<>> => MockActive(c)
               /\ ~MockActive(c)
                    => Events(c, "mock") = <<>> /\ TransportInvocations(c) = 1
               /\ (MockActive(c) /\ ~NoMockHandler(c)) => Len(Events(c, "mock")) = 1

\* C9 witness: call-level enabled = false with a handler, route-level enabled = true
MockingActivatedWitness ==
    \E c \in DOMAIN calls :
        /\ CallMock(c) = Mock(Bool(FALSE), Fn("callMock"))
        /\ RouteMock(c) = Mock(Bool(TRUE), Undefined)
        /\ ~calls[c].mockMode
        /\ calls[c].pc = "resolved"
        /\ Events(c, "mock") = <<Event("mock", "callMock")>>

\* the response handler the claim expects for a fetch call
ExpectedResponseHandler(c) ==
    IF Opt(calls[c].options, "customResponseHandler") # Undefined
    THEN Opt(calls[c].options, "customResponseHandler")
    ELSE IF calls[c].definition.responseHandler # Undefined
    THEN calls[c].definition.responseHandler
    ELSE IF defaultResponseHandler # Undefined
    THEN defaultResponseHandler
    ELSE Fn("json")

\* C10: on a real response a fetch call invokes exactly one response handler, once:
\* the call-level one, else the route-level one, else the config-level default, else
\* the built-in JSON parser; its result is the result of the call.
ResponseHandlerPrecedence ==
    \A c \in DOMAIN calls :
        (calls[c].variant = "fetch" /\ calls[c].response # Undefined)
            => /\ calls[c].pc \in {"handling", "resolved"}
               /\ Events(c, "responseHandler") =
                    <<Event("responseHandler", ExpectedResponseHandler(c).val)>>
               /\ calls[c].pc = "resolved"
                    => calls[c].result =
                         IF ExpectedResponseHandler(c) = Fn("json")
                         THEN [json |-> calls[c].response.body]
                         ELSE [by |-> ExpectedResponseHandler(c).val,
                               response |-> calls[c].response,
                               url |-> calls[c].transport.url,
                               requestParams |-> calls[c].transport.init]

\* C10 witness: no call-level and no route-level handler, the configured default used
ResponseHandlerWitness ==
    \E c \in DOMAIN calls :
        /\ calls[c].variant = "fetch"
        /\ calls[c].pc = "resolved"
        /\ Opt(calls[c].options, "customResponseHandler") = Undefined
        /\ calls[c].definition.responseHandler = Undefined
        /\ defaultResponseHandler = Fn("configHandler")
        /\ calls[c].result.by = "configHandler"

(***************************************************************************)
(* The status handlers: three handlers, one of which throws, are           *)
(* registered and removed while a fetch call and an XHR call are made      *)
(***************************************************************************)
RegistryHandlers == {"h1", "h2", "hThrows"}

\* the on and off calls of the model: three handlers for 200, one for 404
Registrations == {<<200, h>> : h \in RegistryHandlers} \cup {<<404, "h1">>}

StatusRoute == Route(Undefined, Undefined, Fn("routeHandler"))

InitStatus ==
    /\ base = "https://api.example.com"
    /\ sharedRequestOptions = Undefined
    /\ defaultResponseHandler = Undefined
    /\ MOCK_MODE_ENABLED = FALSE
    /\ statusHandlers = [s \in {} |-> <<>>]
    /\ token = "t1"
    /\ onCalls = NoOnCalls
    /\ setCall = NoSetCall
    /\ calls = [c \in Slots |-> IdleCall]
    /\ heap = NoHeap
    /\ objects = <<>>
    /\ out = Undefined

NextStatus ==
    \/ \E c \in Slots : CallFetch(c, "1", StatusRoute, Undefined)
    \/ \E c \in Slots : CallXHR(c, "1", StatusRoute, Undefined)
    \/ \E c \in Slots : SendRequest(c)
    \/ \E c \in Slots, response \in Responses : FetchResponds(c, response)
    \/ \E c \in Slots, response \in Responses : XHRLoadend(c, response)
    \/ \E c \in Slots : ResponseHandled(c)
    \/ \E r \in Registrations : On(r[1], r[2])
    \/ \E r \in Registrations : OffHandler(r[1], r[2])
    \/ \E status \in StatusCodes : OffStatus(status)

SpecStatus == InitStatus /\ [][NextStatus]_vars

(***************************************************************************)
(* Properties of the status handlers                                       *)
(***************************************************************************)
\* the step in which the response of call c arrives and the status handlers are run
DispatchStep(c) == calls[c].response = Undefined /\ calls'[c].response # Undefined

\* the handlers registered for the status when the step begins
RegisteredFor(status) == {HandlersFor(status)[i] : i \in 1..Len(HandlersFor(status))}

\* how often the handler was called in the dispatch of the call
InvocationsOf(call, handler) ==
    Cardinality({i \in 1..Len(call.dispatched) : call.dispatched[i].handler = handler})

\* what the claims expect a status handler of the call to receive
ExpectedStatusParams(call) ==
    [requestType |-> call.variant, status |-> call.response.status,
     response |-> RawResponse(call), requestURL |-> call.transport.url,
     requestParams |-> call.transport.init]

\* C11: when a real request completes with status s, every handler registered for s
\* at that moment is invoked exactly once with the status, the raw response, the
\* final URL and the final resolved options of the call, and every handler invoked
\* is registered for s.
EveryRegisteredHandlerInvokedOnce ==
    [][\A c \in DOMAIN calls :
          DispatchStep(c)
              => /\ \A h \in RegisteredFor(calls'[c].response.status) :
                        InvocationsOf(calls'[c], h) = 1
                 /\ \A i \in 1..Len(calls'[c].dispatched) :
                        /\ calls'[c].dispatched[i].handler
                              \in RegisteredFor(calls'[c].response.status)
                        /\ calls'[c].dispatched[i].params = ExpectedStatusParams(calls'[c])]_vars

\* the positions of the events with this name in a log
PositionsOf(log, ev) == {i \in 1..Len(log) : log[i].ev = ev}

\* the step in which the response handler of call c is invoked
ResponseHandlerStep(c) ==
    /\ PositionsOf(calls[c].log, "responseHandler") = {}
    /\ PositionsOf(calls'[c].log, "responseHandler") # {}

\* the handler has a status event in the log before every response handler event
InvokedBeforeResponseHandler(log, handler) ==
    \E i \in PositionsOf(log, "status") :
        /\ log[i].who = handler
        /\ \A j \in PositionsOf(log, "responseHandler") : i < j

\* C12: within one call, fetch or XHR, every status handler registered for the
\* status of the response has been invoked when the response handler is invoked,
\* no status handler is invoked after it, and a real call resolves with a result
\* only after its response handler was invoked.
StatusHandlersBeforeResponseHandler ==
    /\ [][\A c \in DOMAIN calls :
             ResponseHandlerStep(c)
                 => \A h \in RegisteredFor(calls'[c].response.status) :
                       InvokedBeforeResponseHandler(calls'[c].log, h)]_vars
    /\ [](\A c \in DOMAIN calls :
             /\ \A i \in PositionsOf(calls[c].log, "status"),
                   j \in PositionsOf(calls[c].log, "responseHandler") : i < j
             /\ (calls[c].pc = "resolved" /\ calls[c].mockHandler = Undefined)
                    => /\ calls[c].response # Undefined
                       /\ Cardinality(PositionsOf(calls[c].log, "responseHandler")) = 1)

\* C12 witness: an XHR call resolved after h2 and h1, registered for 200 in this
\* order, and then the response handler were invoked
StatusHandlersBeforeWitness ==
    \E c \in DOMAIN calls :
        /\ calls[c].variant = "xhr"
        /\ calls[c].pc = "resolved"
        /\ calls[c].response.status = 200
        /\ SubSeq(calls[c].log, Len(calls[c].log) - 2, Len(calls[c].log)) =
              <<Event("status", "h2"), Event("status", "h1"),
                Event("responseHandler", "routeHandler")>>

\* a status handler threw in the dispatch of the call
StatusHandlerThrew(c) ==
    \E i \in 1..Len(calls[c].dispatched) : Throws(calls[c].dispatched[i].handler)

\* C13: a status handler that throws during dispatch does not block delivery: the
\* response handler is still invoked and the call, fetch or XHR, resolves with its
\* result.
ThrowingStatusHandlerDoesNotBlock ==
    \A c \in DOMAIN calls :
        StatusHandlerThrew(c)
            => /\ calls[c].pc \in {"handling", "resolved"}
               /\ Cardinality(PositionsOf(calls[c].log, "responseHandler")) = 1
               /\ calls[c].pc = "resolved"
                    => calls[c].result =
                         HandlerResult(calls[c].responseHandler, RawResponse(calls[c]),
                                       calls[c].url, calls[c].resolved)

(***************************************************************************)
(* Failing handlers: the response handler or the mock handler of the route *)
(* throws or returns a rejected promise, a status handler throws           *)
(***************************************************************************)
FailureHandlers == {Fn("routeHandler"), Fn("throwingHandler"), Fn("rejectingHandler")}

FailureMocks ==
    {Undefined, Mock(Bool(TRUE), Fn("routeMock")), Mock(Bool(TRUE), Fn("throwingMock")),
     Mock(Bool(TRUE), Fn("rejectingMock"))}

FailureRoutes ==
    {Route(Undefined, mock, handler) : mock \in FailureMocks, handler \in FailureHandlers}

FailureRegistrations == {<<200, "h1">>, <<200, "hThrows">>}

NextFailure ==
    \/ \E c \in Slots, route \in FailureRoutes : CallFetch(c, "1", route, Undefined)
    \/ \E c \in Slots, route \in FailureRoutes : CallXHR(c, "1", route, Undefined)
    \/ \E c \in Slots : SendRequest(c)
    \/ \E c \in Slots : MockReturns(c)
    \/ \E c \in Slots, response \in Responses : FetchResponds(c, response)
    \/ \E c \in Slots, reason \in TransportErrors : FetchRejects(c, reason)
    \/ \E c \in Slots, response \in Responses : XHRLoadend(c, response)
    \/ \E c \in Slots : ResponseHandled(c)
    \/ \E r \in FailureRegistrations : On(r[1], r[2])
    \/ \E status \in StatusCodes : OffStatus(status)

SpecFailure == InitStatus /\ [][NextFailure]_vars

\* the transport settles and every invoked handler returns or throws: the awaited
\* mock handler, fetch, the XHR's loadend and the response handler's promise each
\* come to their end
SpecFailureFair ==
    /\ SpecFailure
    /\ WF_vars(\E c \in Slots : MockReturns(c))
    /\ WF_vars(\E c \in Slots :
                  \/ \E reason \in TransportErrors : FetchRejects(c, reason)
                  \/ \E response \in Responses : FetchResponds(c, response))
    /\ WF_vars(\E c \in Slots, response \in Responses : XHRLoadend(c, response))
    /\ WF_vars(\E c \in Slots : ResponseHandled(c))

(***************************************************************************)
(* Properties of settling                                                  *)
(***************************************************************************)
\* the promise of the call exists: the fetcher of create was called, or sendRequest
PromiseReturned(c) == calls[c].pc \notin {"idle", "created"}

Settled(c) == calls[c].pc \in {"resolved", "rejected"}

\* C14: the promise of a fetch route call or of sendRequest() is eventually
\* resolved or rejected, given that the transport settles and the handlers end.
EveryCallSettles == \A c \in Slots : PromiseReturned(c) ~> Settled(c)

\* the response handler of the call was invoked
ResponseHandlerInvoked(c) == PositionsOf(calls[c].log, "responseHandler") # {}

\* C15: a call whose mock handler or response handler throws or returns a rejected
\* promise rejects with that failure, in the fetch and in the XHR variant.
HandlerFailureRejectsCall ==
    \A c \in DOMAIN calls :
        /\ (calls[c].mockHandler # Undefined /\ calls[c].pc # "mocking"
                /\ (Throws(calls[c].mockHandler.val) \/ Rejects(calls[c].mockHandler.val)))
              => /\ calls[c].pc = "rejected"
                 /\ calls[c].error = ThrownBy(calls[c].mockHandler.val)
        /\ (ResponseHandlerInvoked(c) /\ Throws(calls[c].responseHandler.val))
              => /\ calls[c].pc = "rejected"
                 /\ calls[c].error = ThrownBy(calls[c].responseHandler.val)
        /\ (ResponseHandlerInvoked(c) /\ calls[c].pc # "handling"
                /\ Rejects(calls[c].responseHandler.val))
              => /\ calls[c].pc = "rejected"
                 /\ calls[c].error = ThrownBy(calls[c].responseHandler.val)

(***************************************************************************)
(* Properties of the registry of status handlers                           *)
(***************************************************************************)
\* C16: no status code maps to an empty handler set; removing the last handler of
\* a status with off(status, handler) removes the entry of the status.
NoEmptyHandlerSet == \A status \in DOMAIN statusHandlers : statusHandlers[status] # <<>>

\* the handlers a registry holds for a status
RegisteredIn(registry, status) ==
    IF status \in DOMAIN registry
    THEN {registry[status][i] : i \in 1..Len(registry[status])}
    ELSE {}

\* the registrations an off call of this step has removed
Removed == DOMAIN onCalls \ DOMAIN onCalls'

\* the statuses with a handler registered in either state of the step
Statuses == DOMAIN statusHandlers \cup DOMAIN statusHandlers'

\* C17: with two distinct handlers registered under one status, a dispatch of the
\* status invokes both; off(status) removes all handlers of the status, so that
\* no later dispatch invokes them; off(status, h) removes only h; both leave the
\* handlers of every other status registered.
TwoHandlersAndOff ==
    [][/\ \A c \in DOMAIN calls :
             (DispatchStep(c)
                 /\ Cardinality(RegisteredFor(calls'[c].response.status)) >= 2)
                 => \A h \in RegisteredFor(calls'[c].response.status) :
                       InvocationsOf(calls'[c], h) = 1
       /\ \A r \in Removed :
             /\ \/ RegisteredIn(statusHandlers', r[1]) = {}
                \/ /\ Cardinality(Removed) = 1
                   /\ statusHandlers'[r[1]] = Without(statusHandlers[r[1]], r[2])
             /\ r[2] \notin RegisteredIn(statusHandlers', r[1])
             /\ \A status \in Statuses \ {r[1]} :
                   RegisteredIn(statusHandlers', status) = RegisteredIn(statusHandlers, status)
       /\ \A c \in DOMAIN calls :
             DispatchStep(c)
                 => \A i \in 1..Len(calls'[c].dispatched) :
                       <<calls'[c].response.status, calls'[c].dispatched[i].handler>>
                           \in DOMAIN onCalls]_vars

\* a handler is registered under the status by two calls of on
RegisteredTwice(status, handler) == OnCallsOf(status, handler) = 2

UpdaterStep == setCall' # setCall /\ setCall'.requestInit.kind = "function"

\* the step is a call of setSharedRequestOptions with a record
RecordStep == setCall' # setCall /\ setCall'.requestInit.kind = "object"

\* the step in which the fetcher of call c resolves its options
ResolveStep(c) == calls[c].pc = "idle" /\ calls'[c].pc # "idle"

\* the updater's return value is stored, and a later call resolves from what is stored
UpdaterResultStored ==
    /\ UpdaterStep
          => sharedRequestOptions' = UpdaterResult(setCall'.requestInit.val, setCall'.current)
    /\ \A c \in DOMAIN calls :
          (ResolveStep(c) /\ sharedRequestOptions.kind = "object")
              => calls'[c].resolved =
                   deepMerge(<<sharedRequestOptions, calls'[c].definition.requestInit,
                               Opt(calls'[c].options, "customRequestInit")>>)

RecordReplacesSharedOptions ==
    /\ [][/\ RecordStep
                => /\ sharedRequestOptions' = setCall'.requestInit
                   /\ UNCHANGED <<base, defaultResponseHandler, MOCK_MODE_ENABLED,
                                  statusHandlers>>
          /\ \A c \in DOMAIN calls :
                (ResolveStep(c) /\ setCall.requestInit.kind = "object")
                    => /\ calls'[c].shared = setCall.requestInit
                       /\ DOMAIN calls'[c].resolved.val =
                            UNION {LayerKeys(setCall.requestInit),
                                   LayerKeys(calls'[c].definition.requestInit),
                                   LayerKeys(Opt(calls'[c].options, "customRequestInit"))}]_vars
    /\ [](setCall.requestInit.kind = "object" => sharedRequestOptions = setCall.requestInit)

\* C20 witness: after setSharedRequestOptions({headers: {ContentType: ...}}) a fetch
\* call without options of its own was made with exactly this record
RecordReplacesWitness ==
    \E c \in DOMAIN calls :
        /\ setCall.requestInit = Obj([headers |-> Obj([ContentType |-> Str("application/json")])])
        /\ calls[c].variant = "fetch"
        /\ calls[c].definition.requestInit = Undefined
        /\ calls[c].options = Undefined
        /\ calls[c].transport # Undefined
        /\ calls[c].transport.init = setCall.requestInit

(***************************************************************************)
(* Two route calls side by side: the routes, the params and the variant    *)
(* differ, the shared options are lazy or a record, and the state the lazy *)
(* function reads changes between the calls                                *)
(***************************************************************************)
CallSlots == {1, 2}

\* two route definitions with their own path, requestInit and response handler,
\* and one whose mock is enabled
CallRoutes ==
    {[prefix |-> "/users/", requestInit |-> Obj([method |-> Str("PUT")]),
      mock |-> Undefined, responseHandler |-> Fn("userHandler")],
     [prefix |-> "/posts/", requestInit |-> Obj([headers |-> Obj([A |-> Str("1")])]),
      mock |-> Undefined, responseHandler |-> Fn("postHandler")],
     [prefix |-> "/mocked/", requestInit |-> Undefined,
      mock |-> Mock(Bool(TRUE), Fn("routeMock")), responseHandler |-> Fn("mockedHandler")]}

CallResponses == {[status |-> 200, body |-> "John Doe"]}

\* the responses of two calls in flight together
ConcurrentResponses == CallResponses \cup {[status |-> 404, body |-> "Not Found"]}

InitCalls ==
    /\ base = "https://api.example.com"
    /\ sharedRequestOptions \in {Fn("tokenHeaders"), Obj([credentials |-> Str("include")])}
    /\ defaultResponseHandler = Undefined
    /\ MOCK_MODE_ENABLED = FALSE
    /\ statusHandlers = [s \in {200, 404} |-> <<"h1">>]
    /\ token = "t1"
    /\ onCalls = [p \in {<<200, "h1">>, <<404, "h1">>} |-> 1]
    /\ setCall = NoSetCall
    /\ calls = [c \in CallSlots |-> IdleCall]
    /\ heap = NoHeap
    /\ objects = <<>>
    /\ out = Undefined

NextCalls ==
    \/ \E c \in CallSlots, params \in Params, route \in CallRoutes :
          CallFetch(c, params, route, Undefined)
    \/ \E c \in CallSlots, params \in Params, route \in CallRoutes :
          CallXHR(c, params, route, Undefined)
    \/ \E c \in CallSlots : SendRequest(c)
    \/ \E c \in CallSlots : MockReturns(c)
    \/ \E c \in CallSlots, response \in ConcurrentResponses : FetchResponds(c, response)
    \/ \E c \in CallSlots, response \in ConcurrentResponses : XHRLoadend(c, response)
    \/ \E c \in CallSlots : ResponseHandled(c)
    \/ \E value \in Tokens : SetToken(value)

SpecCalls == InitCalls /\ [][NextCalls]_vars

(***************************************************************************)
(* Properties of one route call among others                               *)
(***************************************************************************)
\* the Authorization header of the options a call resolved
AuthorizationOf(c) == Get(Get(calls[c].resolved, "headers"), "Authorization")

\* the lazy function is called once by the fetcher, and what it returns for the state
\* of that moment is in the resolved options
LazyInvokedAtCall(c) ==
    (ResolveStep(c) /\ sharedRequestOptions.kind = "function")
        => /\ Len(SelectSeq(calls'[c].log, LAMBDA e : e.ev = "sharedRequestOptions")) = 1
           /\ Get(Get(calls'[c].resolved, "headers"), "Authorization") = Str(token)

\* the options a call resolved stay what they are
ResolvedStays(c) == calls[c].pc # "idle" => calls'[c].resolved = calls[c].resolved

\* C21: a lazy sharedRequestOptions is called anew by every route call: the call
\* resolves what the function returns for the external state of that moment, so
\* two calls around a change of that state resolve different shared options
LazyOptionsInvokedPerCall ==
    [][\A c \in CallSlots : LazyInvokedAtCall(c) /\ ResolvedStays(c)]_vars

\* two calls were made around a change of the token and resolved different headers
LazyOptionsWitness ==
    /\ sharedRequestOptions.kind = "function"
    /\ calls[1].pc = "resolved"
    /\ calls[2].pc = "resolved"
    /\ AuthorizationOf(1) = Str("t1")
    /\ AuthorizationOf(2) = Str("t2")
    /\ calls[1].shared # calls[2].shared

\* the route whose definition function call c was made with
RouteOf(c) == CHOOSE route \in CallRoutes : Events(c, "requestCreator")[1].who = route.prefix

\* the definition a route returns for the params of call c, field by field
DefinitionForParams(c) ==
    /\ calls[c].definition.path = RouteOf(c).prefix \o calls[c].params
    /\ calls[c].definition.requestInit = RouteOf(c).requestInit
    /\ calls[c].definition.mock = RouteOf(c).mock
    /\ calls[c].definition.responseHandler = RouteOf(c).responseHandler

\* what call c has used so far comes from its own definition
DefinitionUsed(c) ==
    /\ calls[c].resolved =
         deepMerge(<<Obj(EmptyRecord), Coalesce(calls[c].shared, DefaultRequestInit),
                     calls[c].definition.requestInit>>)
    /\ calls[c].responseHandler = calls[c].definition.responseHandler
    /\ calls[c].transport # Undefined
          => calls[c].transport.url = base \o calls[c].definition.path
    /\ calls[c].mockHandler # Undefined
          => calls[c].mockHandler = calls[c].definition.mock.handler
    /\ (calls[c].pc = "resolved" /\ calls[c].mockHandler = Undefined)
          => /\ calls[c].result.by = calls[c].definition.responseHandler.val
             /\ calls[c].result.url = base \o calls[c].definition.path
    /\ (calls[c].pc = "resolved" /\ calls[c].mockHandler # Undefined)
          => calls[c].result = [by |-> calls[c].definition.mock.handler.val,
                                params |-> calls[c].params]

\* C22: every route call calls the route-definition function exactly once, with the
\* params of that call, and the path, the options, the mock and the response handler
\* the function returned are the ones that call uses
DefinitionInvokedOncePerCall ==
    \A c \in CallSlots :
        calls[c].pc # "idle"
            => /\ Len(Events(c, "requestCreator")) = 1
               /\ DefinitionForParams(c)
               /\ DefinitionUsed(c)

\* two calls of different routes with different params have settled, one on the
\* transport and one on its mock
DefinitionWitness ==
    /\ calls[1].pc = "resolved"
    /\ calls[2].pc = "resolved"
    /\ calls[1].definition.path = "/users/2"
    /\ calls[2].definition.path = "/mocked/1"
    /\ calls[1].result.by = "userHandler"
    /\ calls[2].result = [by |-> "routeMock", params |-> "1"]

\* call c went to the transport and its response handler's promise resolved
HandledByTransport(c) == calls[c].pc = "resolved" /\ calls[c].mockHandler = Undefined

\* the Response of fetch, or xhr.response
ResponseOf(c) ==
    IF calls[c].variant = "xhr" THEN calls[c].response.body ELSE calls[c].response

\* C23: the response handler is called with the raw response, the final URL and the
\* resolved options the transport was given, which are also the URL and the options
\* in the argument of every status handler called for that call
ResponseHandlerArguments ==
    \A c \in CallSlots :
        HandledByTransport(c)
            => /\ calls[c].result.response = ResponseOf(c)
               /\ calls[c].result.url = calls[c].transport.url
               /\ calls[c].result.requestParams = calls[c].transport.init
               /\ \A i \in 1..Len(calls[c].dispatched) :
                     /\ calls[c].dispatched[i].params.requestURL = calls[c].result.url
                     /\ calls[c].dispatched[i].params.requestParams
                            = calls[c].result.requestParams

\* a fetch call and an XHR call were answered, the status handler and the response
\* handler of each were called
ResponseHandlerArgumentsWitness ==
    /\ HandledByTransport(1)
    /\ HandledByTransport(2)
    /\ calls[1].variant = "fetch"
    /\ calls[2].variant = "xhr"
    /\ Len(calls[1].dispatched) = 1
    /\ Len(calls[2].dispatched) = 1
    /\ calls[1].result.url = "https://api.example.com/users/1"
    /\ calls[2].result.requestParams # calls[1].result.requestParams

(***************************************************************************)
(* Properties of a failing transport                                       *)
(***************************************************************************)
\* the step in which the fetch of call c rejects
FetchRejectStep(c) == calls[c].pc = "fetching" /\ calls'[c].transportError # ""

\* the call rejects with the reason of the transport, which was called once, and no
\* status handler and no response handler was called
RejectedWithTransportReason(c) ==
    /\ calls'[c].pc = "rejected"
    /\ calls'[c].error = calls'[c].transportError
    /\ Len(SelectSeq(calls'[c].log, LAMBDA e : e.ev = "fetch")) = 1
    /\ SelectSeq(calls'[c].log, LAMBDA e : e.ev \in {"status", "responseHandler"}) = <<>>
    /\ calls'[c].dispatched = <<>>

\* a rejected call is over: nothing is called for it again
RejectedIsFinal(c) == calls[c].pc = "rejected" => calls'[c] = calls[c]

\* C24: when the fetch transport rejects, the call rejects with the transport's
\* reason, the transport was invoked exactly once and is not invoked again, and
\* neither a status handler nor the response handler is invoked
FetchFailureRejectsCall ==
    [][\A c \in Slots :
          /\ FetchRejectStep(c) => RejectedWithTransportReason(c)
          /\ RejectedIsFinal(c)]_vars

\* a fetch call was rejected by an aborted transport while a status handler was
\* registered for 200
FetchFailureWitness ==
    /\ calls[1].variant = "fetch"
    /\ calls[1].pc = "rejected"
    /\ calls[1].error = "AbortError: The operation was aborted"
    /\ Len(Events(1, "fetch")) = 1
    /\ HandlersFor(200) = <<"h1">>

(***************************************************************************)
(* Failing calls: a missing mock handler, a stream as the body, a failing  *)
(* transport, a failing handler, among calls that succeed; the XHR emits   *)
(* error, abort and loadend                                                *)
(***************************************************************************)
TransportRoute(requestInit, mock, responseHandler) ==
    [prefix |-> "/users/", requestInit |-> requestInit, mock |-> mock,
     responseHandler |-> responseHandler]

TransportRoutes ==
    {TransportRoute(Undefined, Undefined, Fn("routeHandler")),
     TransportRoute(Obj([body |-> Stream]), Undefined, Fn("routeHandler")),
     TransportRoute(Undefined, Mock(Bool(TRUE), Undefined), Fn("routeHandler")),
     TransportRoute(Undefined, Mock(Bool(TRUE), Fn("throwingMock")), Fn("routeHandler")),
     TransportRoute(Obj([body |-> Str("data")]), Undefined, Fn("rejectingHandler"))}

\* the events a failing XMLHttpRequest emits
XHREvents == {"error", "abort"}

\* the registry at the start: empty, or a handler for the statuses 0 and 200
TransportRegistries == {[s \in {} |-> <<>>], [s \in {0, 200} |-> <<"h1">>]}

InitTransport ==
    /\ base = "https://api.example.com"
    /\ sharedRequestOptions \in {Undefined, Obj([credentials |-> Str("include")])}
    /\ defaultResponseHandler = Undefined
    /\ MOCK_MODE_ENABLED \in BOOLEAN
    /\ statusHandlers \in TransportRegistries
    /\ token = "t1"
    /\ onCalls = [p \in {<<s, statusHandlers[s][1]>> : s \in DOMAIN statusHandlers} |-> 1]
    /\ setCall = NoSetCall
    /\ calls = [c \in CallSlots |-> IdleCall]
    /\ heap = NoHeap
    /\ objects = <<>>
    /\ out = Undefined

NextTransport ==
    \/ \E c \in CallSlots, route \in TransportRoutes : CallFetch(c, "1", route, Undefined)
    \/ \E c \in CallSlots, route \in TransportRoutes : CallXHR(c, "1", route, Undefined)
    \/ \E c \in CallSlots : SendRequest(c)
    \/ \E c \in CallSlots : MockReturns(c)
    \/ \E c \in CallSlots, response \in CallResponses : FetchResponds(c, response)
    \/ \E c \in CallSlots, reason \in TransportErrors : FetchRejects(c, reason)
    \/ \E c \in CallSlots, response \in CallResponses : XHRLoadend(c, response)
    \/ \E c \in CallSlots, event \in XHREvents : XHRFails(c, event)
    \/ \E c \in CallSlots : XHRLoadendAgain(c)
    \/ \E c \in CallSlots : ResponseHandled(c)
    \/ \E value \in BOOLEAN : SetMockMode(value)

SpecTransport == InitTransport /\ [][NextTransport]_vars

(***************************************************************************)
(* Properties of the XHR transport                                         *)
(***************************************************************************)
\* sendRequest() of call c was called and no mock handler took the call
SendRequestReal(c) ==
    /\ calls[c].variant = "xhr"
    /\ calls[c].pc \notin {"idle", "created", "mocking"}
    /\ calls[c].mockHandler = Undefined
    /\ calls[c].error # MockHandlerNotProvided

\* the body of the resolved options of call c is a stream
StreamBody(c) ==
    /\ "body" \in DOMAIN calls[c].resolved.val
    /\ calls[c].resolved.val.body = Stream

\* C25: in the XHR variant a resolved body that is a stream makes sendRequest()
\* reject with the error of the stream that cannot be sent; xhr.send is not called,
\* no loadend listener is attached, no status handler and no response handler runs
StreamBodyRejected ==
    \A c \in CallSlots :
        (SendRequestReal(c) /\ StreamBody(c))
            => /\ calls[c].pc = "rejected"
               /\ calls[c].error = "[api-maker]: Cannot send readable stream via XMLHTTPRequest"
               /\ ~calls[c].xhr.sent
               /\ Events(c, "send") = <<>>
               /\ ~calls[c].listening
               /\ calls[c].loadends = 0
               /\ calls[c].dispatched = <<>>
               /\ Events(c, "status") = <<>>
               /\ Events(c, "responseHandler") = <<>>

\* sendRequest() was called for a stream body with a handler registered
StreamBodyWitness ==
    /\ SendRequestReal(1)
    /\ StreamBody(1)
    /\ calls[1].pc = "rejected"
    /\ calls[1].xhr.opened
    /\ HandlersFor(200) = <<"h1">>

\* the step in which the request of call c, sent by sendRequest(), emits error or abort
XHRFailStep(c) ==
    calls[c].variant = "xhr" /\ calls[c].pc = "sent" /\ calls'[c].transportError # ""

\* the promise of a rejected call keeps its reason
RejectionStays(c) ==
    calls[c].pc = "rejected"
        => calls'[c].pc = "rejected" /\ calls'[c].error = calls[c].error

\* C26: in the XHR variant an error or abort event of the transport after
\* sendRequest() rejects the promise of sendRequest() with that event
XHRFailureRejectsWithEvent ==
    [][\A c \in CallSlots :
          /\ XHRFailStep(c)
                => /\ calls'[c].pc = "rejected"
                   /\ calls'[c].error \in XHREvents
                   /\ calls'[c].error = calls'[c].transportError
          /\ RejectionStays(c)]_vars

\* one request was aborted and one failed after sendRequest()
XHRFailureWitness ==
    /\ calls[1].variant = "xhr"
    /\ calls[2].variant = "xhr"
    /\ calls[1].xhr.sent
    /\ calls[2].xhr.sent
    /\ calls[1].pc = "rejected"
    /\ calls[2].pc = "rejected"
    /\ calls[1].error = "abort"
    /\ calls[2].error = "error"

\* the request of call c ended with error or abort
EndedWithFailure(c) == calls[c].variant = "xhr" /\ calls[c].transportError # ""

\* C27: in the XHR variant the status handlers and the response handler are called
\* only for a request that completes successfully: for a request that ends with
\* error or abort no status handler and no response handler is called
HandlersOnlyOnSuccess ==
    \A c \in CallSlots :
        EndedWithFailure(c)
            => /\ calls[c].dispatched = <<>>
               /\ Events(c, "status") = <<>>
               /\ Events(c, "responseHandler") = <<>>

\* the promise of call c has settled and keeps its state, its value and its reason
SettledStays(c) ==
    calls[c].pc \in {"resolved", "rejected"}
        => /\ calls'[c].pc = calls[c].pc
           /\ calls'[c].result = calls[c].result
           /\ calls'[c].error = calls[c].error

\* once loadend was fired for call c, no handler is called for it again
NothingAfterLoadend(c) ==
    calls[c].loadends >= 1
        => /\ calls'[c].dispatched = calls[c].dispatched
           /\ calls'[c].log = calls[c].log

\* C28: the loadend listener of one sendRequest() call is one-shot: when the
\* transport fires loadend again, the status handlers are not dispatched again, the
\* response handler is not called again and the promise stays as it settled
LoadendListenerOneShot ==
    [][\A c \in CallSlots :
          /\ NothingAfterLoadend(c)
          /\ SettledStays(c)
          /\ Len(SelectSeq(calls'[c].log, LAMBDA e : e.ev = "responseHandler")) <= 1
          /\ Len(calls'[c].dispatched) <= 1]_vars

\* loadend was fired twice for a request that was answered: one dispatch, one call of
\* the response handler, and the call resolved
LoadendAgainWitness ==
    /\ calls[1].variant = "xhr"
    /\ calls[1].loadends = 2
    /\ calls[1].pc = "resolved"
    /\ Len(calls[1].dispatched) = 1
    /\ Len(Events(1, "responseHandler")) = 1
    /\ ~calls[1].listening

(***************************************************************************)
(* Properties of a failing call                                            *)
(***************************************************************************)
\* the step in which call c fails: its promise rejects, or its loadend listener is
\* left by a throw
FailureStep(c) ==
    /\ calls'[c].pc # calls[c].pc
    /\ calls'[c].pc \in {"rejected", "stalled"}

\* C29: a call that fails, by a missing mock handler, a stream body, a failing
\* transport or a failing handler, leaves the shared options, the mock-mode flag and
\* the registry of status handlers as they were, as it leaves the rest of the
\* configuration
FailureLeavesController ==
    [][\A c \in CallSlots :
          FailureStep(c)
              => /\ sharedRequestOptions' = sharedRequestOptions
                 /\ MOCK_MODE_ENABLED' = MOCK_MODE_ENABLED
                 /\ statusHandlers' = statusHandlers
                 /\ base' = base
                 /\ defaultResponseHandler' = defaultResponseHandler]_vars

\* a call failed on its mock handler, and the call made after it was answered under
\* the configuration there was: shared options, mock mode and a registered handler
FailureWitness ==
    /\ calls[1].pc = "rejected"
    /\ calls[1].error = ThrownBy("throwingMock")
    /\ calls[2].pc = "resolved"
    /\ calls[2].mockMode
    /\ MOCK_MODE_ENABLED
    /\ Len(calls[2].dispatched) = 1
    /\ calls[2].shared = Obj([credentials |-> Str("include")])
    /\ sharedRequestOptions = calls[2].shared
    /\ HandlersFor(200) = <<"h1">>

(***************************************************************************)
(* deepMerge over object references: the objects live on a heap, a value   *)
(* of a key is a primitive or the address of an object, and assigning an   *)
(* object stores its address                                               *)
(***************************************************************************)
\* the reference to the object at an address
Ref(address) == [kind |-> "ref", addr |-> address]

\* the keys of the records of the model, in the order `for (let key in object)` visits
HeapKeys == <<"method", "credentials", "headers", "A", "B", "X">>

\* the keys of the object at an address, in that order
KeysAt(h, address) == SelectSeq(HeapKeys, LAMBDA key : key \in DOMAIN h[address])

\* object[key] = value for the object at an address
HeapAssign(h, address, key, value) ==
    [h EXCEPT ![address] =
        [k \in DOMAIN h[address] \cup {key} |-> IF k = key THEN value ELSE h[address][k]]]

\* a merge that writes into its first argument when that is an object
MergeTargetFirst(h, args) ==
    IF args # <<>> /\ args[1].kind = "ref" THEN args[1].addr ELSE Len(h) + 1

\* the object deepMerge writes to: `const out = {}`, the object just created
MergeTarget(h, args) == Len(h) + 1

RECURSIVE HeapDeepMerge(_, _)
RECURSIVE HeapMergeKeys(_, _, _, _)
RECURSIVE HeapMergeArgs(_, _, _)

\* the inner loop over the keys of one argument:
\* out[key] = key in out && value && typeof value == "object" ? deepMerge(out[key], value) : value
HeapMergeKeys(h, target, source, keys) ==
    IF keys = <<>>
    THEN h
    ELSE LET key == Head(keys)
             value == h[source][key]
         IN  IF key \in DOMAIN h[target] /\ value.kind = "ref"
             THEN LET merged == HeapDeepMerge(h, <<h[target][key], value>>)
                  IN  HeapMergeKeys(HeapAssign(merged.heap, target, key, merged.out),
                                    target, source, Tail(keys))
             ELSE HeapMergeKeys(HeapAssign(h, target, key, value), target, source,
                                Tail(keys))

\* the outer loop over the arguments, which are undefined or objects here:
\* `if (!object) continue; for (let key in object) ...`
HeapMergeArgs(h, target, args) ==
    IF args = <<>>
    THEN [heap |-> h, out |-> Ref(target)]
    ELSE LET object == Head(args)
         IN  IF object.kind = "ref"
             THEN HeapMergeArgs(HeapMergeKeys(h, target, object.addr,
                                              KeysAt(h, object.addr)),
                                target, Tail(args))
             ELSE HeapMergeArgs(h, target, Tail(args))

\* deepMerge(...objects) on the heap: the heap afterwards and the reference returned
HeapDeepMerge(h, args) == HeapMergeArgs(Append(h, EmptyRecord), MergeTarget(h, args), args)

\* deepMerge({}, shared, requestInit, customRequestInit) of create and createXHR
HeapResolve(h, layers) ==
    HeapDeepMerge(Append(h, EmptyRecord), <<Ref(Len(h) + 1)>> \o layers)

\* the heap is not larger than this
MaxHeap == 16

\* the fetcher resolves the options of a call from the three layers
ResolveOnHeap ==
    /\ Len(HeapResolve(heap, objects).heap) <= MaxHeap
    /\ heap' = HeapResolve(heap, objects).heap
    /\ out' = HeapResolve(heap, objects).out
    /\ UNCHANGED <<base, sharedRequestOptions, defaultResponseHandler, MOCK_MODE_ENABLED,
                   statusHandlers, token, onCalls, setCall, calls, objects>>

\* a layer of options as the caller wrote it: undefined, or a record whose headers,
\* if any, are a record of their own
HeapLayers ==
    {Undefined,
     Obj([method |-> Str("PUT")]),
     Obj([headers |-> Obj([A |-> Str("1")])]),
     Obj([headers |-> Obj([A |-> Str("2"), B |-> Str("2")]), credentials |-> Str("include")])}

\* the heap after the object literal of a layer was evaluated: the headers first
StoreLayer(h, layer) ==
    IF layer = Undefined
    THEN h
    ELSE IF "headers" \in DOMAIN layer.val
    THEN Append(Append(h, layer.val.headers.val),
                [key \in DOMAIN layer.val |->
                    IF key = "headers" THEN Ref(Len(h) + 1) ELSE layer.val[key]])
    ELSE Append(h, layer.val)

\* the value of the layer stored last: undefined, or the reference to its record
LayerRef(h, layer) == IF layer = Undefined THEN Undefined ELSE Ref(Len(h))

\* the heap that holds the shared options, the requestInit of the route and the
\* customRequestInit of the call
HeapOf(shared, requestInit, customRequestInit) ==
    StoreLayer(StoreLayer(StoreLayer(NoHeap, shared), requestInit), customRequestInit)

\* the three layers as references into that heap
LayersOf(shared, requestInit, customRequestInit) ==
    <<LayerRef(StoreLayer(NoHeap, shared), shared),
      LayerRef(StoreLayer(StoreLayer(NoHeap, shared), requestInit), requestInit),
      LayerRef(HeapOf(shared, requestInit, customRequestInit), customRequestInit)>>

InitHeap ==
    /\ base = ""
    /\ sharedRequestOptions = Undefined
    /\ defaultResponseHandler = Undefined
    /\ MOCK_MODE_ENABLED = FALSE
    /\ statusHandlers = [s \in {} |-> <<>>]
    /\ token = "t1"
    /\ onCalls = NoOnCalls
    /\ setCall = NoSetCall
    /\ calls = NoCalls
    /\ \E shared \in HeapLayers, requestInit \in HeapLayers, customRequestInit \in HeapLayers :
          /\ heap = HeapOf(shared, requestInit, customRequestInit)
          /\ objects = LayersOf(shared, requestInit, customRequestInit)
    /\ out = Undefined

NextHeap == ResolveOnHeap

SpecHeap == InitHeap /\ [][NextHeap]_vars

(***************************************************************************)
(* Properties of deepMerge over object references                          *)
(***************************************************************************)
\* the addresses of the objects there are
Addresses == 1..Len(heap)

\* C30: deepMerge, and with it the resolution of the options of a call, does not
\* change its inputs: every object there was before the call, the shared options, the
\* requestInit of the route, the customRequestInit of the call and their headers, is
\* afterwards what it was, and the record returned is a new object, none of the inputs
MergeLeavesInputs ==
    [][/\ \A address \in Addresses : heap'[address] = heap[address]
       /\ out'.addr \notin Addresses
       /\ \A i \in 1..Len(objects) : out' # objects[i]]_vars

\* the options of a second call were resolved from three layers that all have
\* headers: the result has headers merged from them and the layers are as written
MergeLeavesInputsWitness ==
    /\ Len(objects) = 3
    /\ \A i \in 1..3 : objects[i] # Undefined /\ "headers" \in DOMAIN heap[objects[i].addr]
    /\ out # Undefined
    /\ out.addr >= 12
    /\ heap[heap[out.addr].headers.addr] = [A |-> Str("1"), B |-> Str("2")]
    /\ heap[heap[objects[1].addr].headers.addr] = [A |-> Str("1")]
    /\ heap[heap[objects[2].addr].headers.addr] = [A |-> Str("2"), B |-> Str("2")]
    /\ heap[heap[objects[3].addr].headers.addr] = [A |-> Str("1")]

(***************************************************************************)
(* Properties of the XHR variant                                           *)
(***************************************************************************)
\* the positions of an event in the log of call c
At(c, ev) == {i \in 1..Len(calls[c].log) : calls[c].log[i].ev = ev}

\* the method of the resolved options of call c, GET when there is none
ResolvedMethod(c) ==
    IF "method" \in DOMAIN calls[c].resolved.val
    THEN calls[c].resolved.val.method
    ELSE Str("GET")

\* the route function returned {xhr, sendRequest}: nothing is opened, listened to or sent
NothingSentByRouteCall(c) ==
    calls[c].pc = "created"
        => /\ ~calls[c].xhr.opened
           /\ ~calls[c].xhr.sent
           /\ ~calls[c].listening
           /\ At(c, "open") \cup At(c, "addEventListener") \cup At(c, "send") = {}

\* the request that was sent was opened with the resolved method and the URL, then
\* given its listeners, then sent
OpenedBeforeListenersAndSend(c) ==
    calls[c].xhr.sent
        => /\ calls[c].xhr.method = ResolvedMethod(c)
           /\ calls[c].xhr.url = base \o calls[c].definition.path
           /\ Cardinality(At(c, "open")) = 1
           /\ Cardinality(At(c, "send")) = 1
           /\ \A i \in At(c, "open"), j \in At(c, "addEventListener") : i < j
           /\ \A j \in At(c, "addEventListener"), k \in At(c, "send") : j < k

\* C31: calling an XHR route function returns the XMLHttpRequest and sendRequest and
\* sends nothing; xhr.send is called by sendRequest() only, after the request was
\* opened with the resolved method and the URL and after the listeners were attached,
\* in that order
XHRSendsOnlyOnSendRequest ==
    \A c \in Slots :
        calls[c].variant = "xhr"
            => /\ NothingSentByRouteCall(c)
               /\ OpenedBeforeListenersAndSend(c)
               /\ calls[c].listening => calls[c].xhr.opened

\* sendRequest() sent a request with the method of the call-level options
XHRSendWitness ==
    /\ calls[1].variant = "xhr"
    /\ calls[1].pc = "sent"
    /\ calls[1].xhr.sent
    /\ calls[1].listening
    /\ calls[1].xhr.method = Str("POST")
    /\ calls[1].xhr.url = "https://api.example.com/users/2"

(***************************************************************************)
(* Properties of concurrent calls                                          *)
(***************************************************************************)
\* what the response handler of call c is given first: the Response, or xhr.response
OwnResponse(c) ==
    IF calls[c].variant = "xhr" THEN calls[c].response.body ELSE calls[c].response

\* the argument of every status handler called for call c is made of the call's own
\* status, response, URL and resolved options
OwnDispatch(c) ==
    /\ Len(calls[c].dispatched) = Len(HandlersFor(calls[c].response.status))
    /\ \A i \in 1..Len(calls[c].dispatched) :
          /\ calls[c].dispatched[i].params.status = calls[c].response.status
          /\ calls[c].dispatched[i].params.response = OwnResponse(c)
          /\ calls[c].dispatched[i].params.requestURL = base \o calls[c].definition.path
          /\ calls[c].dispatched[i].params.requestParams = calls[c].resolved
          /\ calls[c].dispatched[i].params.requestType = calls[c].variant

\* the call resolved with its own response handler's result for its own response
OwnResult(c) ==
    calls[c].pc = "resolved"
        => /\ calls[c].result.by = calls[c].definition.responseHandler.val
           /\ calls[c].result.response = OwnResponse(c)
           /\ calls[c].result.url = base \o calls[c].definition.path
           /\ calls[c].result.requestParams = calls[c].resolved

\* C32: two calls in flight on one controller are independent: in whatever order the
\* responses arrive, the status handlers are called for each call with that call's own
\* status, URL and resolved options, and each call resolves with what its own
\* response handler makes of its own response
ConcurrentCallsIndependent ==
    \A c \in CallSlots :
        (calls[c].response # Undefined /\ calls[c].mockHandler = Undefined)
            => OwnDispatch(c) /\ OwnResult(c)

\* the response of the second call arrived and was handled while the first call, of
\* another route, was still waiting; then the first was answered with another status
ConcurrentCallsWitness ==
    /\ calls[1].variant = "fetch"
    /\ calls[2].variant = "fetch"
    /\ calls[1].definition.path = "/users/1"
    /\ calls[2].definition.path = "/posts/2"
    /\ calls[2].pc = "resolved"
    /\ calls[2].response.status = 404
    /\ calls[1].pc = "handling"
    /\ calls[1].response.status = 200
    /\ calls[1].resolved # calls[2].resolved
    /\ Len(calls[1].dispatched) = 1
    /\ Len(calls[2].dispatched) = 1

\* the first call is still waiting for its response when the second has resolved
ConcurrentCallsOvertaken ==
    /\ calls[1].pc = "fetching"
    /\ calls[2].pc = "resolved"

\* the headers of the resolved options of call c, undefined when there are none
ResolvedHeaders(c) ==
    IF "headers" \in DOMAIN calls[c].resolved.val
    THEN calls[c].resolved.val.headers
    ELSE Undefined

\* the entries of the resolved headers whose value is a string
StringEntries(c) ==
    IF ResolvedHeaders(c).kind \in {"object", "array"}
    THEN {name \in EnumKeys(ResolvedHeaders(c)) : Get(ResolvedHeaders(c), name).kind = "string"}
    ELSE {}

\* the resolved credentials are "include"
CredentialsIncluded(c) ==
    /\ "credentials" \in DOMAIN calls[c].resolved.val
    /\ calls[c].resolved.val.credentials = Str("include")

\* C33: in the XHR variant the request that is sent has one header for each entry of
\* the resolved headers whose value is a string, with that value, and no other header,
\* and withCredentials is set exactly when the resolved credentials are "include"
XHRTranslatesOptions ==
    \A c \in Slots :
        (calls[c].variant = "xhr" /\ calls[c].xhr.opened)
            => /\ DOMAIN calls[c].xhr.headers = StringEntries(c)
               /\ \A name \in StringEntries(c) :
                     calls[c].xhr.headers[name] = Get(ResolvedHeaders(c), name).val
               /\ calls[c].xhr.withCredentials <=> CredentialsIncluded(c)

\* a request was sent for headers with a string and a number, and with credentials
XHRTranslatesWitness ==
    /\ calls[1].variant = "xhr"
    /\ calls[1].xhr.sent
    /\ ResolvedHeaders(1) = Obj([A |-> Str("2"), B |-> Num(2)])
    /\ calls[1].xhr.headers = [A |-> "2"]
    /\ calls[1].xhr.withCredentials

\* neither the call nor the route definition of call c supplies a response handler
NoResponseHandlerSupplied(c) ==
    /\ Opt(calls[c].options, "customResponseHandler") = Undefined
    /\ calls[c].definition.responseHandler = Undefined

\* the handler of the configuration, else the built-in one
ConfiguredResponseHandler ==
    IF defaultResponseHandler # Undefined THEN defaultResponseHandler ELSE Fn("json")

\* C34: in the XHR variant a call for which neither the call nor the route definition
\* supplies a response handler uses the defaultResponseHandler of the configuration,
\* else the built-in JSON handler: the handler is applied to the response and the call
\* resolves with its result
XHRDefaultResponseHandler ==
    \A c \in Slots :
        (calls[c].variant = "xhr" /\ calls[c].pc # "idle" /\ NoResponseHandlerSupplied(c))
            => /\ calls[c].responseHandler = ConfiguredResponseHandler
               /\ calls[c].response # Undefined
                     => /\ calls[c].pc \in {"handling", "resolved"}
                        /\ Len(Events(c, "responseHandler")) = 1

(***************************************************************************)
(* The controller changes while a call is in flight: the mock-mode flag is *)
(* toggled and the shared options are replaced between the steps of a call *)
(***************************************************************************)
\* a route with a mock handler that is used under the mock mode only, and one without
FlightRoutes ==
    {Route(Obj([body |-> Str("data")]), Mock(Undefined, Fn("routeMock")), Fn("routeHandler")),
     Route(Undefined, Undefined, Fn("routeHandler"))}

InitFlight ==
    /\ base = "https://api.example.com"
    /\ sharedRequestOptions \in {Undefined, Obj([method |-> Str("PATCH")])}
    /\ defaultResponseHandler = Undefined
    /\ MOCK_MODE_ENABLED \in BOOLEAN
    /\ statusHandlers = [s \in {200} |-> <<"h1">>]
    /\ token = "t1"
    /\ onCalls = [p \in {<<200, "h1">>} |-> 1]
    /\ setCall = NoSetCall
    /\ calls = [c \in Slots |-> IdleCall]
    /\ heap = NoHeap
    /\ objects = <<>>
    /\ out = Undefined

NextFlight ==
    \/ \E c \in Slots, route \in FlightRoutes : CallFetch(c, "1", route, Undefined)
    \/ \E c \in Slots, route \in FlightRoutes : CallXHR(c, "1", route, Undefined)
    \/ \E c \in Slots : SendRequest(c)
    \/ \E c \in Slots : MockReturns(c)
    \/ \E c \in Slots, response \in CallResponses : FetchResponds(c, response)
    \/ \E c \in Slots, response \in CallResponses : XHRLoadend(c, response)
    \/ \E c \in Slots : ResponseHandled(c)
    \/ \E value \in BOOLEAN : SetMockMode(value)
    \/ \E requestInit \in SetChoices : SetSharedRequestOptions(requestInit)

SpecFlight == InitFlight /\ [][NextFlight]_vars

(***************************************************************************)
(* Properties of calls in flight while the controller changes              *)
(***************************************************************************)
\* the handlers called in the dispatch of call c, after the step
DispatchedHandlers(c) ==
    {calls'[c].dispatched[i].handler : i \in 1..Len(calls'[c].dispatched)}

\* C35: the registry of status handlers is read when the response arrives: the
\* handlers called for a call are the ones registered for the status at that moment,
\* so one added by on after the call started is called and one removed by off before
\* the response is not
RegistryReadAtResponse ==
    [][\A c \in Slots :
          DispatchStep(c)
              => DispatchedHandlers(c) = RegisteredFor(calls'[c].response.status)]_vars

\* the route of call c has a mock handler, which the mock mode alone brings into use
HasRouteMock(c) == calls'[c].definition.mock # Undefined

\* the options a call resolves from the shared options of this moment
ResolvedNow(c) ==
    deepMerge(<<IF sharedRequestOptions = Undefined
                THEN Obj([method |-> Str("GET")])
                ELSE sharedRequestOptions,
                calls'[c].definition.requestInit>>)

\* the fetcher of create decides on the mock, the URL and the options when it is called
FetchDecidedAtCall(c) ==
    (ResolveStep(c) /\ calls'[c].variant = "fetch")
        => /\ (calls'[c].pc = "mocking") <=> (MOCK_MODE_ENABLED /\ HasRouteMock(c))
           /\ (calls'[c].pc = "fetching") <=> ~(MOCK_MODE_ENABLED /\ HasRouteMock(c))
           /\ calls'[c].resolved = ResolvedNow(c)
           /\ calls'[c].url = base \o calls'[c].definition.path

\* what was decided stays, and is what the transport, the status handlers and the
\* response handler of the call are given
FetchDecisionKept(c) ==
    (calls[c].variant = "fetch")
        => /\ calls'[c].mockHandler = calls[c].mockHandler
           /\ calls'[c].resolved = calls[c].resolved
           /\ calls'[c].url = calls[c].url
           /\ calls'[c].transport = calls[c].transport
           /\ calls[c].pc = "mocking" => calls'[c].pc \in {"mocking", "resolved"}
           /\ calls[c].pc = "fetching" => Events(c, "mock") = <<>>
           /\ \A i \in 1..Len(calls'[c].dispatched) :
                 /\ calls'[c].dispatched[i].params.requestURL = calls[c].url
                 /\ calls'[c].dispatched[i].params.requestParams = calls[c].resolved
           /\ (calls'[c].pc = "resolved" /\ calls[c].mockHandler = Undefined)
                 => /\ calls'[c].result.url = calls[c].url
                    /\ calls'[c].result.requestParams = calls[c].resolved

\* C36: for a fetch call the mock decision, the URL and the resolved options are fixed
\* when the route function is called: a later toggle of the mock-mode flag or a later
\* setSharedRequestOptions changes neither whether the call is mocked nor the URL and
\* the options its transport, status handlers and response handler see
FetchFixedAtCall ==
    [][\A c \in Slots : FetchDecidedAtCall(c) /\ FetchDecisionKept(c)]_vars

\* a fetch call of a route with a mock handler went to the transport with the shared
\* method PATCH; the flag was switched on and the shared options replaced before the
\* response; the call resolved with the options of its start
FetchFixedWitness ==
    /\ calls[1].variant = "fetch"
    /\ calls[1].pc = "resolved"
    /\ calls[1].definition.mock # Undefined
    /\ calls[1].mockHandler = Undefined
    /\ ~calls[1].mockMode
    /\ MOCK_MODE_ENABLED
    /\ sharedRequestOptions = Obj([method |-> Str("DELETE")])
    /\ calls[1].transport.init.val.method = Str("PATCH")
    /\ calls[1].result.requestParams.val.method = Str("PATCH")
    /\ calls[1].dispatched[1].params.requestParams.val.method = Str("PATCH")

\* the step in which sendRequest() of call c is called
SendRequestStep(c) == calls[c].pc = "created" /\ calls'[c].pc # "created"

\* a field of the options call c resolved, undefined when it has none
ResolvedField(c, field) ==
    IF field \in DOMAIN calls[c].resolved.val THEN calls[c].resolved.val[field] ELSE Undefined

\* the fetcher of createXHR resolves the options and the response handler when it is
\* called, and they stay
XHRResolvedAtCall(c) ==
    /\ (ResolveStep(c) /\ calls'[c].variant = "xhr")
          => /\ calls'[c].resolved = ResolvedNow(c)
             /\ calls'[c].responseHandler = calls'[c].definition.responseHandler
             /\ calls'[c].pc = "created"
    /\ calls[c].variant = "xhr"
          => /\ calls'[c].resolved = calls[c].resolved
             /\ calls'[c].responseHandler = calls[c].responseHandler

\* sendRequest() decides on the mock by the flag of its own moment, and sends the
\* method and the body of the options resolved by the route call
MockDecidedAtSendRequest(c) ==
    SendRequestStep(c)
        => /\ (calls'[c].pc = "mocking") <=> (MOCK_MODE_ENABLED /\ HasRouteMock(c))
           /\ (calls'[c].pc = "sent") <=> ~(MOCK_MODE_ENABLED /\ HasRouteMock(c))
           /\ calls'[c].pc = "sent"
                 => /\ calls'[c].xhr.method
                          = (IF ResolvedField(c, "method") = Undefined
                             THEN Str("GET") ELSE ResolvedField(c, "method"))
                    /\ calls'[c].xhr.body = ResolvedField(c, "body")
                    /\ calls'[c].xhr.headers
                          = [name \in StringEntries(c) |-> Get(ResolvedHeaders(c), name).val]
                    /\ calls'[c].transport.init = calls[c].resolved

\* C37: in the XHR variant the resolved options and the response handler are fixed
\* when the route function is called, and the mock decision is taken when
\* sendRequest() is called: the flag as it is then decides whether the call is mocked,
\* while a setSharedRequestOptions between the two changes nothing of what is sent
XHRFixedAtCallMockAtSend ==
    [][\A c \in Slots : XHRResolvedAtCall(c) /\ MockDecidedAtSendRequest(c)]_vars

\* the route function was called under the shared method PATCH; then the shared
\* options were replaced and the flag switched on; sendRequest() was mocked
XHRMockedAtSendWitness ==
    /\ calls[1].variant = "xhr"
    /\ calls[1].pc = "resolved"
    /\ calls[1].mockHandler = Fn("routeMock")
    /\ calls[1].shared = Obj([method |-> Str("PATCH")])
    /\ sharedRequestOptions = Obj([method |-> Str("DELETE")])
    /\ calls[1].resolved.val.method = Str("PATCH")

\* the same route call, with the flag off at sendRequest(): PATCH and the body are sent
XHRSentAsResolvedWitness ==
    /\ calls[1].variant = "xhr"
    /\ calls[1].pc = "sent"
    /\ calls[1].definition.mock # Undefined
    /\ sharedRequestOptions = Obj([method |-> Str("DELETE")])
    /\ calls[1].xhr.method = Str("PATCH")
    /\ calls[1].xhr.body = Str("data")

(***************************************************************************)
(* An updater over lazy shared options: the shared options start as a      *)
(* function of the token, updaters are applied and the token changes       *)
(***************************************************************************)
LazyUpdaters == {Fn("withMethod"), Fn("withContentType")}

LazyRoute == Route(Undefined, Undefined, Fn("routeHandler"))

InitLazy ==
    /\ base = "https://api.example.com"
    /\ sharedRequestOptions = Fn("tokenHeaders")
    /\ defaultResponseHandler = Undefined
    /\ MOCK_MODE_ENABLED = FALSE
    /\ statusHandlers = [s \in {} |-> <<>>]
    /\ token \in Tokens
    /\ onCalls = NoOnCalls
    /\ setCall = NoSetCall
    /\ calls = [c \in CallSlots |-> IdleCall]
    /\ heap = NoHeap
    /\ objects = <<>>
    /\ out = Undefined

NextLazy ==
    \/ \E c \in CallSlots : CallFetch(c, "1", LazyRoute, Undefined)
    \/ \E c \in CallSlots : CallXHR(c, "1", LazyRoute, Undefined)
    \/ \E c \in CallSlots : SendRequest(c)
    \/ \E c \in CallSlots, response \in CallResponses : FetchResponds(c, response)
    \/ \E c \in CallSlots, response \in CallResponses : XHRLoadend(c, response)
    \/ \E c \in CallSlots : ResponseHandled(c)
    \/ \E requestInit \in LazyUpdaters : SetSharedRequestOptions(requestInit)
    \/ \E value \in Tokens : SetToken(value)

SpecLazy == InitLazy /\ [][NextLazy]_vars

(***************************************************************************)
(* Properties of an updater over lazy shared options                       *)
(***************************************************************************)
\* the updater is applied while the shared options are a lazy function: what is
\* stored is a record, made from what the function returns at that moment
UpdaterOverLazyStoresRecord ==
    (UpdaterStep /\ sharedRequestOptions.kind = "function")
        => /\ sharedRequestOptions'.kind = "object"
           /\ setCall'.current = Obj([headers |-> Obj([Authorization |-> Str(token)])])
           /\ setCall'.requestInit = Fn("withMethod")
                 => sharedRequestOptions' =
                       Obj([headers |-> Obj([Authorization |-> Str(token)]),
                            method |-> Str("DELETE")])

\* a call made while a record is stored does not call the lazy function, and its
\* shared layer is the record, whatever the token is
RecordResolvedWithoutLazy(c) ==
    (ResolveStep(c) /\ sharedRequestOptions.kind = "object")
        => /\ SelectSeq(calls'[c].log, LAMBDA e : e.ev = "sharedRequestOptions") = <<>>
           /\ calls'[c].shared = sharedRequestOptions
           /\ calls'[c].resolved = deepMerge(<<sharedRequestOptions>>)

\* C38: after setSharedRequestOptions was called with an updater while the shared
\* options were a lazy function, the record the updater returned is stored: no later
\* call calls the lazy function, and a later change of the state it read does not
\* show in the options later calls resolve
UpdaterFreezesLazyOptions ==
    [][/\ UpdaterOverLazyStoresRecord
       /\ sharedRequestOptions.kind = "object" => sharedRequestOptions'.kind = "object"
       /\ \A c \in CallSlots : RecordResolvedWithoutLazy(c)]_vars

\* the updater was applied under the token t1, the token became t2, and a call made
\* then was sent with the Authorization of t1
UpdaterFreezesWitness ==
    /\ setCall.requestInit = Fn("withMethod")
    /\ token = "t2"
    /\ sharedRequestOptions =
          Obj([headers |-> Obj([Authorization |-> Str("t1")]), method |-> Str("DELETE")])
    /\ calls[1].pc = "resolved"
    /\ Events(1, "sharedRequestOptions") = <<>>
    /\ calls[1].transport.init = sharedRequestOptions
    /\ calls[2].pc = "resolved"
    /\ Len(Events(2, "sharedRequestOptions")) = 1
    /\ calls[2].transport.init = Obj([headers |-> Obj([Authorization |-> Str("t2")])])

(***************************************************************************)
(* A handler writes to the options it is given: the resolved options are   *)
(* on the heap with the layers they were merged from                       *)
(***************************************************************************)
\* the headers object of the object at an address, or 0 when it has none
HeadersAt(h, address) ==
    IF "headers" \in DOMAIN h[address] /\ h[address].headers.kind = "ref"
    THEN h[address].headers.addr
    ELSE 0

\* a status handler or the response handler of the call adds a header to the
\* requestParams it is given: requestParams.headers["X"] = "1"
HandlerMutates ==
    /\ out # Undefined
    /\ HeadersAt(heap, out.addr) # 0
    /\ "X" \notin DOMAIN heap[HeadersAt(heap, out.addr)]
    /\ heap' = HeapAssign(heap, HeadersAt(heap, out.addr), "X", Str("1"))
    /\ UNCHANGED <<base, sharedRequestOptions, defaultResponseHandler, MOCK_MODE_ENABLED,
                   statusHandlers, token, onCalls, setCall, calls, objects, out>>

NextAlias == ResolveOnHeap \/ HandlerMutates

SpecAlias == InitHeap /\ [][NextAlias]_vars

\* the headers objects of the shared options, the requestInit of the route and the
\* customRequestInit of the call
SourceHeaders ==
    {HeadersAt(heap, objects[i].addr) : i \in {j \in 1..Len(objects) : objects[j] # Undefined}}
        \ {0}

\* the step in which a handler writes to the options it was given
MutationStep == heap' # heap /\ out' = out

\* C39: the resolved options given to the transport and the handlers of a call share
\* no nested record with the shared options, the requestInit of the route or the
\* customRequestInit of the call: a handler that adds a header to the
\* requestParams.headers it is given leaves those sources as they are, and with them
\* the options of every later call
HandlerMutationStaysLocal ==
    [][/\ MutationStep => \A address \in SourceHeaders : heap'[address] = heap[address]
       /\ (out' # out /\ HeadersAt(heap', out'.addr) # 0)
             => HeadersAt(heap', out'.addr) \notin SourceHeaders]_vars

\* the options of a later call carry the header a handler added to those of an
\* earlier call
LaterCallSeesMutation ==
    /\ out # Undefined
    /\ out.addr > Len(heap) - 2
    /\ HeadersAt(heap, out.addr) # 0
    /\ "X" \in DOMAIN heap[HeadersAt(heap, out.addr)]
    /\ \E address \in 1..(out.addr - 1) : HeadersAt(heap, address) = HeadersAt(heap, out.addr)

====
